---- MODULE Spec2Model ----
(***************************************************************************)
(* Voxel-grid visibility analysis actor (ACPP_AT_VolumeAnalysis_Base) and  *)
(* its geometry library (UCPP_BPL__VolumeAnalysis).                        *)
(*                                                                         *)
(* Coordinates are integers on a lattice fine enough that every division   *)
(* the code performs on the boxes used here is exact.  A point (FVector)   *)
(* is a triple <<x, y, z>>.  All segments probed by the scanner are        *)
(* parallel to a coordinate axis.                                          *)
(***************************************************************************)
EXTENDS Integers, Sequences, FiniteSets, TLC

(***************************************************************************)
(* Bounds of the model.                                                    *)
(***************************************************************************)
MaxCount == 2
MaxCells == 8
MaxSubCount == 2
MaxBudget == 2

(***************************************************************************)
(* Small arithmetic helpers (FMath).                                       *)
(***************************************************************************)
Min2(a, b) == IF a <= b THEN a ELSE b

Max2(a, b) == IF a >= b THEN a ELSE b

Min3(a, b, c) == Min2(a, Min2(b, c))

Clamp(v, lo, hi) == IF v < lo THEN lo ELSE IF v > hi THEN hi ELSE v

Abs(a) == IF a < 0 THEN -a ELSE a

\* C++ integer division and remainder truncate toward zero.
CDiv(a, b) == IF (a >= 0) = (b > 0) THEN Abs(a) \div Abs(b) ELSE -(Abs(a) \div Abs(b))

CMod(a, b) == a - b * CDiv(a, b)

\* FVector::Distance for two points that differ along one axis only.
Distance(p, q) == Abs(p[1] - q[1]) + Abs(p[2] - q[2]) + Abs(p[3] - q[3])

ZeroVector == <<0, 0, 0>>

\* The value of e, computed once, bound in In.
Let(e, In(_)) == CHOOSE r \in {In(v) : v \in {e}} : TRUE

(***************************************************************************)
(* FS_LinkedSharedPoint / FS_LinkedBox.  A box is a record with a partial  *)
(* map Points from corner names to points and a VisibilityMask.  A corner  *)
(* whose shared pointer is not valid holds NullPoint.                      *)
(***************************************************************************)
EE_Box_8Point == {"Top_Forward_Right", "Top_Forward_Left", "Top_Backward_Right", "Top_Backward_Left", "Bottom_Forward_Right", "Bottom_Forward_Left", "Bottom_Backward_Right", "Bottom_Backward_Left"}

NullPoint == <<>>

IsSharedPointValid(p) == p # NullPoint

GetPoint(p) == IF IsSharedPointValid(p) THEN p ELSE ZeroVector

EmptyLinkedBox == [Points |-> [c \in {} |-> NullPoint], VisibilityMask |-> 0]

\* FS_LinkedBox::SetBoxPoint: overwrite the corner or add it.
SetBoxPoint(B, Corner, NewPoint) == [B EXCEPT !.Points = (Corner :> NewPoint) @@ @]

ValidPoints(B) == {B.Points[c] : c \in {d \in DOMAIN B.Points : IsSharedPointValid(B.Points[d])}}

(***************************************************************************)
(* FBox and MakeBoxFromPoints: min/max reduction; no points gives the      *)
(* zero-initialised box, whose IsValid is false; one point or more gives a *)
(* valid box.                                                              *)
(***************************************************************************)
SetMin(S) == CHOOSE m \in S : \A n \in S : m <= n

SetMax(S) == CHOOSE m \in S : \A n \in S : m >= n

MakeBoxFromPoints(Pts) ==
    Let(Pts, LAMBDA P :
        IF P = {}
        THEN [IsValid |-> FALSE, Min |-> ZeroVector, Max |-> ZeroVector]
        ELSE [IsValid |-> TRUE,
              Min |-> <<SetMin({p[1] : p \in P}), SetMin({p[2] : p \in P}), SetMin({p[3] : p \in P})>>,
              Max |-> <<SetMax({p[1] : p \in P}), SetMax({p[2] : p \in P}), SetMax({p[3] : p \in P})>>])

LinkedBox_GetAABB(InBox) == MakeBoxFromPoints(ValidPoints(InBox))

\* Mean of the valid corners, zero vector if there is none.
SumAxis(B, k) ==
    LET RECURSIVE Acc(_)
        Acc(S) == IF S = {} THEN 0
                  ELSE Let(CHOOSE d \in S : TRUE, LAMBDA c : GetPoint(B.Points[c])[k] + Let(S \ {c}, Acc))
    IN Let({d \in DOMAIN B.Points : IsSharedPointValid(B.Points[d])}, Acc)

LinkedBox_GetCenter(InBox) ==
    Let(InBox, LAMBDA B :
        Let(Cardinality({d \in DOMAIN B.Points : IsSharedPointValid(B.Points[d])}), LAMBDA Count :
            IF Count > 0
            THEN <<SumAxis(B, 1) \div Count, SumAxis(B, 2) \div Count, SumAxis(B, 3) \div Count>>
            ELSE ZeroVector))

(***************************************************************************)
(* GenerateVoxelGridBoxes_ByCounts: the three nested loops (zi outermost,  *)
(* xi innermost) append one voxel per iteration.                           *)
(***************************************************************************)
\* Variant of AxisStep: the extent is divided by Count - 1.
AxisStep_Fencepost(Count, lo, hi) == IF Count > 1 THEN (hi - lo) \div (Count - 1) ELSE hi - lo

AxisStep(Count, lo, hi) == IF Count > 1 THEN (hi - lo) \div Count ELSE hi - lo

MakeVoxel(X0, X1, Y0, Y1, Z0, Z1) ==
    LET b0 == EmptyLinkedBox
        b1 == SetBoxPoint(b0, "Bottom_Backward_Left", <<X0, Y0, Z0>>)
        b2 == SetBoxPoint(b1, "Bottom_Backward_Right", <<X1, Y0, Z0>>)
        b3 == SetBoxPoint(b2, "Bottom_Forward_Left", <<X0, Y1, Z0>>)
        b4 == SetBoxPoint(b3, "Bottom_Forward_Right", <<X1, Y1, Z0>>)
        b5 == SetBoxPoint(b4, "Top_Backward_Left", <<X0, Y0, Z1>>)
        b6 == SetBoxPoint(b5, "Top_Backward_Right", <<X1, Y0, Z1>>)
        b7 == SetBoxPoint(b6, "Top_Forward_Left", <<X0, Y1, Z1>>)
    IN SetBoxPoint(b7, "Top_Forward_Right", <<X1, Y1, Z1>>)

\* Variant of GenerateVoxelGridBoxes_ByCounts: the yi loop is outermost, the
\* zi loop inside it.
GenerateVoxelGridBoxes_YOutermost(Box, CountX, CountY, CountZ) ==
    IF ~Box.IsValid \/ CountX <= 0 \/ CountY <= 0 \/ CountZ <= 0
    THEN <<>>
    ELSE Let(<<AxisStep(CountX, Box.Min[1], Box.Max[1]), AxisStep(CountY, Box.Min[2], Box.Max[2]), AxisStep(CountZ, Box.Min[3], Box.Max[3])>>, LAMBDA Step :
         LET RECURSIVE LoopX(_, _, _)
             LoopX(zi, yi, xi) ==
                 IF xi >= CountX THEN <<>>
                 ELSE Let(<<Box.Min[1] + xi * Step[1], Box.Min[2] + yi * Step[2], Box.Min[3] + zi * Step[3]>>, LAMBDA P0 :
                          <<MakeVoxel(P0[1], P0[1] + Step[1], P0[2], P0[2] + Step[2], P0[3], P0[3] + Step[3])>>)
                      \o LoopX(zi, yi, xi + 1)
             RECURSIVE LoopZ(_, _)
             LoopZ(yi, zi) == IF zi >= CountZ THEN <<>> ELSE LoopX(zi, yi, 0) \o LoopZ(yi, zi + 1)
             RECURSIVE LoopY(_)
             LoopY(yi) == IF yi >= CountY THEN <<>> ELSE LoopZ(yi, 0) \o LoopY(yi + 1)
         IN LoopY(0))

GenerateVoxelGridBoxes_ByCounts(Box, CountX, CountY, CountZ) ==
    IF ~Box.IsValid \/ CountX <= 0 \/ CountY <= 0 \/ CountZ <= 0
    THEN <<>>
    ELSE Let(<<AxisStep(CountX, Box.Min[1], Box.Max[1]), AxisStep(CountY, Box.Min[2], Box.Max[2]), AxisStep(CountZ, Box.Min[3], Box.Max[3])>>, LAMBDA Step :
         LET RECURSIVE LoopX(_, _, _)
             LoopX(zi, yi, xi) ==
                 IF xi >= CountX THEN <<>>
                 ELSE Let(<<Box.Min[1] + xi * Step[1], Box.Min[2] + yi * Step[2], Box.Min[3] + zi * Step[3]>>, LAMBDA P0 :
                          <<MakeVoxel(P0[1], P0[1] + Step[1], P0[2], P0[2] + Step[2], P0[3], P0[3] + Step[3])>>)
                      \o LoopX(zi, yi, xi + 1)
             RECURSIVE LoopY(_, _)
             LoopY(zi, yi) == IF yi >= CountY THEN <<>> ELSE LoopX(zi, yi, 0) \o LoopY(zi, yi + 1)
             RECURSIVE LoopZ(_)
             LoopZ(zi) == IF zi >= CountZ THEN <<>> ELSE LoopY(zi, 0) \o LoopZ(zi + 1)
         IN LoopZ(0))

(***************************************************************************)
(* State.  The actor's properties and private fields keep their names.     *)
(* World stands for GetWorld() being non-null, scene for the geometry the  *)
(* probes run against: a set of solid axis-aligned blocks [lo, hi].        *)
(* completions counts the OnAnalysisComplete broadcasts since the last     *)
(* StartAnalysis that reached its reset, eventPayload is the array carried *)
(* by the last broadcast, lastOp names the last operation invoked and      *)
(* crashed records an out-of-range array access.  scanLog lists the rows   *)
(* and columns the main pass has scanned in the grid PendingBoxes holds,   *)
(* in order, each as <<phase, first index, second index>> as passed to     *)
(* ScanRowX(Y, Z), ScanRowY(X, Z) and ScanColumnZ(X, Y).  mainFlags is the  *)
(* sequence of the cells' flags at the moment the step found the main pass *)
(* complete, empty before that.  refineLog lists the worklist entries the  *)
(* loop of ProcessRowsStep_SubSampling has taken, in order.                *)
(* libCall records the last direct call of a function of the library      *)
(* UCPP_BPL__VolumeAnalysis, or of a row scan of the step called on its    *)
(* own: its name, its arguments and what it returned.                      *)
(* sharedPoints holds the FVector objects made by MakeShared, in the order *)
(* of their allocation; linkedBoxes holds the boxes a caller passes by     *)
(* reference to LinkedBox_SetBoxPoint and LinkedBox_LinkTwoBoxPoint, each  *)
(* corner of Points being the index of its object in sharedPoints or 0 for *)
(* a null TSharedPtr; linkGroup names, for every corner of those boxes,    *)
(* the corner whose point it was last linked to.  rowScan is the position  *)
(* of a ScanRowX call followed one loop iteration at a time: the row, the  *)
(* loop variable StartI and the probes issued so far.  tickCount is the    *)
(* number of Tick calls that found the controller running, counted in the  *)
(* runs of a pre-set budget.                                               *)
(***************************************************************************)
VARIABLES World, scene,
          VolumeBox, SampleCountX, SampleCountY, SampleCountZ,
          RowsPerTick, MaxTraceDistance, bUseCenterOverlapTest, CenterOverlapRadius,
          bEnableSubSampling, SubSampleCountX, SubSampleCountY, SubSampleCountZ,
          AnalysisResults, VisibleCount, HiddenCount,
          PendingBoxes, CurrentCellIndex, bIsRunning,
          GridCountX, GridCountY, GridCountZ,
          CellSizeX, CellSizeY, CellSizeZ,
          bIsSubSampling, HiddenBoxIndices, CurrentHiddenIndex,
          CurrentPhase, CurrentPhaseRowIndex,
          completions, eventPayload, lastOp, crashed, scanLog, mainFlags, refineLog,
          libCall, sharedPoints, linkedBoxes, linkGroup, rowScan, tickCount

envVars == <<World, scene>>

propVars == <<VolumeBox, SampleCountX, SampleCountY, SampleCountZ, RowsPerTick, MaxTraceDistance, bUseCenterOverlapTest, CenterOverlapRadius, bEnableSubSampling, SubSampleCountX, SubSampleCountY, SubSampleCountZ>>

stepPropVars == <<MaxTraceDistance, bUseCenterOverlapTest, CenterOverlapRadius, bEnableSubSampling, SubSampleCountX, SubSampleCountY, SubSampleCountZ>>

actorVars == <<AnalysisResults, VisibleCount, HiddenCount, PendingBoxes, CurrentCellIndex, bIsRunning, GridCountX, GridCountY, GridCountZ, CellSizeX, CellSizeY, CellSizeZ, bIsSubSampling, HiddenBoxIndices, CurrentHiddenIndex, CurrentPhase, CurrentPhaseRowIndex>>

ghostVars == <<completions, eventPayload, lastOp, crashed, scanLog, mainFlags, refineLog>>

linkVars == <<sharedPoints, linkedBoxes, linkGroup>>

libVars == <<libCall, linkVars, rowScan, tickCount>>

vars == <<envVars, propVars, actorVars, ghostVars, libVars>>

(***************************************************************************)
(* The probes of the engine, answered from the scene.                      *)
(*                                                                         *)
(* SweepSingleByChannel with a sphere and equal start and end: blocked iff *)
(* the sphere touches a block.  A radius of 0 stands for the positive      *)
(* radius below the lattice resolution that the code falls back to.        *)
(***************************************************************************)
AxisGap(s, C, k) == Max2(0, Max2(s.lo[k] - C[k], C[k] - s.hi[k]))

SphereOverlap(C, Radius) ==
    \E s \in scene :
        AxisGap(s, C, 1) * AxisGap(s, C, 1) + AxisGap(s, C, 2) * AxisGap(s, C, 2) + AxisGap(s, C, 3) * AxisGap(s, C, 3) <= Radius * Radius

(***************************************************************************)
(* LineTraceSingleByChannel along an axis-parallel segment: the nearest    *)
(* block met by the segment; a segment that starts inside a block hits at  *)
(* distance 0; a segment of length zero hits nothing.  Dist stands for     *)
(* Hit.Time * SegmentLen.                                                  *)
(***************************************************************************)
SegAxis(P0, P1) == IF P0[1] # P1[1] THEN 1 ELSE IF P0[2] # P1[2] THEN 2 ELSE 3

SegMeets(s, P0, P1) ==
    \A k \in 1..3 : s.lo[k] <= Max2(P0[k], P1[k]) /\ s.hi[k] >= Min2(P0[k], P1[k])

EntryDist(s, P0, P1) ==
    LET k == SegAxis(P0, P1)
    IN IF P0[k] <= P1[k] THEN Max2(0, s.lo[k] - P0[k]) ELSE Max2(0, P0[k] - s.hi[k])

LineTrace(P0, P1) ==
    Let({s \in scene : SegMeets(s, P0, P1)}, LAMBDA Hits :
        IF P0 = P1 \/ Hits = {}
        THEN [bHit |-> FALSE, Dist |-> 0]
        ELSE [bHit |-> TRUE, Dist |-> SetMin({EntryDist(s, P0, P1) : s \in Hits})])

(***************************************************************************)
(* IsCenterFree (the same lambda in ProcessRowsStep and in                 *)
(* ProcessRowsStep_SubSampling).                                           *)
(***************************************************************************)
AutoR == Max2(0, Min3(CellSizeX, CellSizeY, CellSizeZ)) \div 4

IsCenterFree(C) ==
    IF ~bUseCenterOverlapTest THEN TRUE
    ELSE ~SphereOverlap(C, IF CenterOverlapRadius > 0 THEN CenterOverlapRadius ELSE AutoR)

(***************************************************************************)
(* The segment walk shared by ScanRowX, ScanRowY, ScanColumnZ and          *)
(* ScanSubRow.  CenterAt(i) is the center of the i-th cell of the line.    *)
(* The walk yields the sequence of probes, each with the span of indices   *)
(* [StartI, MarkTo] it marks.                                              *)
(***************************************************************************)
TargetIndex(StartI, Count, StepLen) ==
    IF MaxTraceDistance > 0 /\ StepLen > 0
    THEN Min2(StartI + Clamp(MaxTraceDistance \div StepLen, 1, Count - 1), Count - 1)
    ELSE Count - 1

\* Variant of HitIndexOf: a step counts as soon as the hit lies beyond its start.
HitIndexOf_RoundUp(StartI, TargetI, HitDist, StepLen) ==
    IF StepLen > 0
    THEN Clamp(StartI + (HitDist + StepLen - 1) \div StepLen, StartI, TargetI)
    ELSE StartI

\* "StartI + FloorToInt(HitDist / StepLen + 1e-3f)", clamped to [StartI, TargetI].
HitIndexOf(StartI, TargetI, HitDist, StepLen) ==
    IF StepLen > 0
    THEN Clamp(StartI + (1000 * HitDist + StepLen) \div (1000 * StepLen), StartI, TargetI)
    ELSE StartI

SegmentWalk(Count, CenterAt(_)) ==
    Let([i \in 0..(Count - 1) |-> CenterAt(i)], LAMBDA Centers :
    Let(Distance(Centers[0], Centers[1]), LAMBDA StepLen :
        LET RECURSIVE Walk(_)
            Walk(StartI) ==
                IF StartI >= Count THEN <<>>
                ELSE Let(TargetIndex(StartI, Count, StepLen), LAMBDA TargetI :
                     Let(LineTrace(Centers[StartI], Centers[TargetI]), LAMBDA Hit :
                     Let(HitIndexOf(StartI, TargetI, Clamp(Hit.Dist, 0, Distance(Centers[StartI], Centers[TargetI])), StepLen), LAMBDA HitIndex :
                         IF ~Hit.bHit
                         THEN <<[StartI |-> StartI, TargetI |-> TargetI, bHit |-> FALSE, MarkTo |-> TargetI]>> \o Walk(TargetI + 1)
                         ELSE <<[StartI |-> StartI, TargetI |-> TargetI, bHit |-> TRUE, MarkTo |-> HitIndex]>> \o Walk(Min2(HitIndex + 1, Count)))))
        IN Let(0, Walk)))

\* The indices of a line whose cell a scan marks: inside a probe's span, center free.
MarkedIndices(Count, CenterAt(_)) ==
    IF Count <= 0 THEN {}
    ELSE IF Count = 1 THEN {i \in {0} : IsCenterFree(CenterAt(0))}
    ELSE Let(SegmentWalk(Count, CenterAt), LAMBDA Probes :
             {i \in 0..(Count - 1) : IsCenterFree(CenterAt(i)) /\ \E n \in 1..Len(Probes) : Probes[n].StartI <= i /\ i <= Probes[n].MarkTo})

(***************************************************************************)
(* The handlers work on a record S of the actor's fields (and the ghost    *)
(* fields completions, eventPayload, crashed, scanLog, mainFlags,          *)
(* refineLog); an action commits the record its handler returns.           *)
(***************************************************************************)
Cur ==
    [AnalysisResults |-> AnalysisResults, VisibleCount |-> VisibleCount, HiddenCount |-> HiddenCount,
     PendingBoxes |-> PendingBoxes, CurrentCellIndex |-> CurrentCellIndex, bIsRunning |-> bIsRunning,
     GridCountX |-> GridCountX, GridCountY |-> GridCountY, GridCountZ |-> GridCountZ,
     CellSizeX |-> CellSizeX, CellSizeY |-> CellSizeY, CellSizeZ |-> CellSizeZ,
     bIsSubSampling |-> bIsSubSampling, HiddenBoxIndices |-> HiddenBoxIndices, CurrentHiddenIndex |-> CurrentHiddenIndex,
     CurrentPhase |-> CurrentPhase, CurrentPhaseRowIndex |-> CurrentPhaseRowIndex,
     completions |-> completions, eventPayload |-> eventPayload, crashed |-> crashed, scanLog |-> scanLog,
     mainFlags |-> mainFlags, refineLog |-> refineLog]

Commit(Result) ==
    \E S \in {Result} :
        /\ AnalysisResults' = S.AnalysisResults
        /\ VisibleCount' = S.VisibleCount
        /\ HiddenCount' = S.HiddenCount
        /\ PendingBoxes' = S.PendingBoxes
        /\ CurrentCellIndex' = S.CurrentCellIndex
        /\ bIsRunning' = S.bIsRunning
        /\ GridCountX' = S.GridCountX
        /\ GridCountY' = S.GridCountY
        /\ GridCountZ' = S.GridCountZ
        /\ CellSizeX' = S.CellSizeX
        /\ CellSizeY' = S.CellSizeY
        /\ CellSizeZ' = S.CellSizeZ
        /\ bIsSubSampling' = S.bIsSubSampling
        /\ HiddenBoxIndices' = S.HiddenBoxIndices
        /\ CurrentHiddenIndex' = S.CurrentHiddenIndex
        /\ CurrentPhase' = S.CurrentPhase
        /\ CurrentPhaseRowIndex' = S.CurrentPhaseRowIndex
        /\ completions' = S.completions
        /\ eventPayload' = S.eventPayload
        /\ crashed' = S.crashed
        /\ scanLog' = S.scanLog
        /\ mainFlags' = S.mainFlags
        /\ refineLog' = S.refineLog

\* OnAnalysisComplete.Broadcast(AnalysisResults)
Broadcast(S) == Let(S, LAMBDA T : [T EXCEPT !.completions = @ + 1, !.eventPayload = T.AnalysisResults])

CountVisible(Boxes) == Cardinality({n \in 1..Len(Boxes) : Boxes[n].VisibilityMask # 0})

CountHidden(Boxes) == Cardinality({n \in 1..Len(Boxes) : Boxes[n].VisibilityMask = 0})

(***************************************************************************)
(* Main pass: ScanRowX, ScanRowY, ScanColumnZ.  Each yields the boxes      *)
(* after the scan and whether the scan indexed PendingBoxes out of range.  *)
(***************************************************************************)
\* Variant of Index: the stride of Y is GridCountY.
Index_StrideY(X, Y, Z) == Z * (GridCountY * GridCountX) + Y * GridCountY + X

Index(X, Y, Z) == Z * (GridCountY * GridCountX) + Y * GridCountX + X

\* Variant of MarkBox: the flag is assigned from the probe instead of only raised.
MarkBox_Assign(Box, bMarked) == [Box EXCEPT !.VisibilityMask = IF bMarked THEN 1 ELSE 0]

\* Variant of MarkBox: the flag of a marked cell is flipped.
MarkBox_Toggle(Box, bMarked) == IF bMarked THEN [Box EXCEPT !.VisibilityMask = 1 - @] ELSE Box

\* "PendingBoxes[Index(...)].VisibilityMask = 1" for a cell a probe reached with a free center.
MarkBox(Box, bMarked) == IF bMarked THEN [Box EXCEPT !.VisibilityMask = 1] ELSE Box

ScanLine(Boxes, Count, IdxAt(_)) ==
    IF Count <= 0 THEN [Boxes |-> Boxes, Fault |-> FALSE]
    ELSE IF \E i \in 0..(Count - 1) : IdxAt(i) < 0 \/ IdxAt(i) >= Len(Boxes)
    THEN [Boxes |-> Boxes, Fault |-> TRUE]
    ELSE LET CenterAt(i) == LinkedBox_GetCenter(Boxes[IdxAt(i) + 1])
         IN Let({IdxAt(i) + 1 : i \in MarkedIndices(Count, CenterAt)}, LAMBDA Marked :
            Let({IdxAt(i) + 1 : i \in 0..(Count - 1)}, LAMBDA Line :
                [Boxes |-> [n \in 1..Len(Boxes) |-> IF n \in Line THEN MarkBox(Boxes[n], n \in Marked) ELSE Boxes[n]],
                 Fault |-> FALSE]))

ScanRowX(Boxes, YIndex, ZIndex) ==
    LET IdxAt(Xi) == Index(Xi, YIndex, ZIndex) IN ScanLine(Boxes, GridCountX, IdxAt)

ScanRowY(Boxes, XIndex, ZIndex) ==
    LET IdxAt(Yi) == Index(XIndex, Yi, ZIndex) IN ScanLine(Boxes, GridCountY, IdxAt)

ScanColumnZ(Boxes, XIndex, YIndex) ==
    LET IdxAt(Zi) == Index(XIndex, YIndex, Zi) IN ScanLine(Boxes, GridCountZ, IdxAt)

(***************************************************************************)
(* The while loop of ProcessRowsStep over L = [Boxes, CurrentPhase,        *)
(* CurrentPhaseRowIndex, RowsProcessed, Fault, ScanLog].                   *)
(***************************************************************************)
\* Variant of PhaseTotal: phase 1 takes the number of rows of phase 0.
PhaseTotal_RowsOfX(Phase) ==
    IF Phase = 0 \/ Phase = 1 THEN GridCountY * GridCountZ
    ELSE GridCountX * GridCountY

PhaseTotal(Phase) ==
    IF Phase = 0 THEN GridCountY * GridCountZ
    ELSE IF Phase = 1 THEN GridCountX * GridCountZ
    ELSE GridCountX * GridCountY

\* The two indices of the row or column RowIdx of a phase: (YIndex, ZIndex),
\* (XIndex, ZIndex), (XIndex, YIndex).
PhaseRow(Phase, RowIdx) ==
    IF Phase = 0 THEN <<CMod(RowIdx, GridCountY), CDiv(RowIdx, GridCountY)>>
    ELSE <<CMod(RowIdx, GridCountX), CDiv(RowIdx, GridCountX)>>

PhaseScan(Boxes, Phase, RowIdx) ==
    IF Phase = 0 THEN ScanRowX(Boxes, PhaseRow(Phase, RowIdx)[1], PhaseRow(Phase, RowIdx)[2])
    ELSE IF Phase = 1 THEN ScanRowY(Boxes, PhaseRow(Phase, RowIdx)[1], PhaseRow(Phase, RowIdx)[2])
    ELSE ScanColumnZ(Boxes, PhaseRow(Phase, RowIdx)[1], PhaseRow(Phase, RowIdx)[2])

\* Variant of MainLoop: a phase whose rows are all scanned is left even when
\* the budget is used up.
RECURSIVE MainLoop_EagerPhaseEnd(_, _, _)
MainLoop_EagerPhaseEnd(L, Running, MaxRowsPerTick) ==
    IF ~(Running /\ L.CurrentPhase < 3) \/ L.Fault
    THEN L
    ELSE IF PhaseTotal(L.CurrentPhase) <= 0 \/ L.CurrentPhaseRowIndex >= PhaseTotal(L.CurrentPhase)
    THEN IF L.CurrentPhase = 2
         THEN [L EXCEPT !.CurrentPhase = 3]
         ELSE Let([L EXCEPT !.CurrentPhase = @ + 1, !.CurrentPhaseRowIndex = 0],
                  LAMBDA L1 : MainLoop_EagerPhaseEnd(L1, Running, MaxRowsPerTick))
    ELSE IF ~(L.RowsProcessed < MaxRowsPerTick)
    THEN L
    ELSE Let(PhaseScan(L.Boxes, L.CurrentPhase, L.CurrentPhaseRowIndex), LAMBDA R :
             IF R.Fault
             THEN [L EXCEPT !.Fault = TRUE]
             ELSE Let([L EXCEPT !.Boxes = R.Boxes, !.CurrentPhaseRowIndex = @ + 1, !.RowsProcessed = @ + 1,
                                !.ScanLog = Append(@, <<L.CurrentPhase>> \o PhaseRow(L.CurrentPhase, L.CurrentPhaseRowIndex))],
                      LAMBDA L1 : MainLoop_EagerPhaseEnd(L1, Running, MaxRowsPerTick)))

RECURSIVE MainLoop(_, _, _)
MainLoop(L, Running, MaxRowsPerTick) ==
    IF ~(Running /\ L.RowsProcessed < MaxRowsPerTick /\ L.CurrentPhase < 3) \/ L.Fault
    THEN L
    ELSE IF PhaseTotal(L.CurrentPhase) <= 0 \/ L.CurrentPhaseRowIndex >= PhaseTotal(L.CurrentPhase)
    THEN IF L.CurrentPhase = 2
         THEN [L EXCEPT !.CurrentPhase = 3]
         ELSE Let([L EXCEPT !.CurrentPhase = @ + 1, !.CurrentPhaseRowIndex = 0],
                  LAMBDA L1 : MainLoop(L1, Running, MaxRowsPerTick))
    ELSE Let(PhaseScan(L.Boxes, L.CurrentPhase, L.CurrentPhaseRowIndex), LAMBDA R :
             IF R.Fault
             THEN [L EXCEPT !.Fault = TRUE]
             ELSE Let([L EXCEPT !.Boxes = R.Boxes, !.CurrentPhaseRowIndex = @ + 1, !.RowsProcessed = @ + 1,
                                !.ScanLog = Append(@, <<L.CurrentPhase>> \o PhaseRow(L.CurrentPhase, L.CurrentPhaseRowIndex))],
                      LAMBDA L1 : MainLoop(L1, Running, MaxRowsPerTick)))

(***************************************************************************)
(* ProcessRowsStep_SubSampling.  Refining one hidden box: a sub-grid in    *)
(* the box's AABB, the three families of ScanSubRow over it, bAnyVisible.  *)
(***************************************************************************)
IndexSub(X, Y, Z) == Z * (SubSampleCountY * SubSampleCountX) + Y * SubSampleCountX + X

\* One ScanSubRow: does it index SubVoxels out of range, does it find a free center.
ScanSubRow(SubVoxels, Count, IdxAt(_)) ==
    IF Count <= 0 THEN [Any |-> FALSE, Fault |-> FALSE]
    ELSE IF \E i \in 0..(Count - 1) : IdxAt(i) < 0 \/ IdxAt(i) >= Len(SubVoxels)
    THEN [Any |-> FALSE, Fault |-> TRUE]
    ELSE LET CenterAt(i) == LinkedBox_GetCenter(SubVoxels[IdxAt(i) + 1])
         IN Let(MarkedIndices(Count, CenterAt), LAMBDA Marked : [Any |-> Marked # {}, Fault |-> FALSE])

SubRowResults(SubVoxels) ==
    {LET IdxAt(x) == IndexSub(x, yz[1], yz[2]) IN ScanSubRow(SubVoxels, SubSampleCountX, IdxAt) : yz \in (0..(SubSampleCountY - 1)) \X (0..(SubSampleCountZ - 1))}
    \cup {LET IdxAt(y) == IndexSub(xz[1], y, xz[2]) IN ScanSubRow(SubVoxels, SubSampleCountY, IdxAt) : xz \in (0..(SubSampleCountX - 1)) \X (0..(SubSampleCountZ - 1))}
    \cup {LET IdxAt(z) == IndexSub(xy[1], xy[2], z) IN ScanSubRow(SubVoxels, SubSampleCountZ, IdxAt) : xy \in (0..(SubSampleCountX - 1)) \X (0..(SubSampleCountY - 1))}

\* Variant of RefineBox: bAnyVisible needs a free center in every sub-row.
RefineBox_EveryRow(Box) ==
    Let(GenerateVoxelGridBoxes_ByCounts(LinkedBox_GetAABB(Box), SubSampleCountX, SubSampleCountY, SubSampleCountZ), LAMBDA SubVoxels :
    Let(SubRowResults(SubVoxels), LAMBDA Results :
        [bAnyVisible |-> \A r \in Results : r.Any, Fault |-> \E r \in Results : r.Fault]))

\* Variant of RefineBox: a sub-row of one sub-cell counts without the center test.
RefineBox_SingleNoCenterTest(Box) ==
    Let(GenerateVoxelGridBoxes_ByCounts(LinkedBox_GetAABB(Box), SubSampleCountX, SubSampleCountY, SubSampleCountZ), LAMBDA SubVoxels :
    Let(SubRowResults(SubVoxels), LAMBDA Results :
        [bAnyVisible |-> (\E r \in Results : r.Any) \/ (Len(SubVoxels) > 0 /\ 1 \in {SubSampleCountX, SubSampleCountY, SubSampleCountZ}),
         Fault |-> \E r \in Results : r.Fault]))

RefineBox(Box) ==
    Let(GenerateVoxelGridBoxes_ByCounts(LinkedBox_GetAABB(Box), SubSampleCountX, SubSampleCountY, SubSampleCountZ), LAMBDA SubVoxels :
    Let(SubRowResults(SubVoxels), LAMBDA Results :
        [bAnyVisible |-> \E r \in Results : r.Any, Fault |-> \E r \in Results : r.Fault]))

\* Variant of Promote: the flag is written at the position after BoxIdx as well.
Promote_NextCell(Boxes, BoxIdx, bAnyVisible) ==
    [n \in 1..Len(Boxes) |-> IF bAnyVisible /\ n \in {BoxIdx + 1, BoxIdx + 2} THEN [Boxes[n] EXCEPT !.VisibilityMask = 1] ELSE Boxes[n]]

\* "if (bAnyVisible) Box.VisibilityMask = 1", Box being PendingBoxes[BoxIdx]; SubVoxels goes out of scope.
Promote(Boxes, BoxIdx, bAnyVisible) ==
    [Boxes EXCEPT ![BoxIdx + 1].VisibilityMask = IF bAnyVisible THEN 1 ELSE @]

RECURSIVE SubLoop(_, _, _)
SubLoop(S, RefinedThisTick, MaxCellsPerTick) ==
    IF ~(S.bIsRunning /\ RefinedThisTick < MaxCellsPerTick /\ S.CurrentHiddenIndex < Len(S.HiddenBoxIndices)) \/ S.crashed
    THEN S
    ELSE Let(S.HiddenBoxIndices[S.CurrentHiddenIndex + 1], LAMBDA BoxIdx :
             IF BoxIdx < 0 \/ BoxIdx >= Len(S.PendingBoxes)
             THEN [S EXCEPT !.crashed = TRUE]
             ELSE IF S.PendingBoxes[BoxIdx + 1].VisibilityMask # 0
             THEN Let([S EXCEPT !.CurrentHiddenIndex = @ + 1, !.refineLog = Append(@, BoxIdx)],
                      LAMBDA S1 : SubLoop(S1, RefinedThisTick, MaxCellsPerTick))
             ELSE Let(RefineBox(S.PendingBoxes[BoxIdx + 1]), LAMBDA R :
                      IF R.Fault
                      THEN [S EXCEPT !.crashed = TRUE]
                      ELSE Let([S EXCEPT !.PendingBoxes = Promote(@, BoxIdx, R.bAnyVisible),
                                         !.CurrentHiddenIndex = @ + 1, !.refineLog = Append(@, BoxIdx)],
                               LAMBDA S1 : SubLoop(S1, RefinedThisTick + 1, MaxCellsPerTick))))

\* The positions of HiddenBoxIndices at which the loop of
\* ProcessRowsStep_SubSampling, run from S, takes the branch
\* "if (Box.VisibilityMask != 0) { ++CurrentHiddenIndex; continue; }".
RECURSIVE SkippedEntries(_, _, _)
SkippedEntries(S, RefinedThisTick, MaxCellsPerTick) ==
    IF ~(S.bIsRunning /\ RefinedThisTick < MaxCellsPerTick /\ S.CurrentHiddenIndex < Len(S.HiddenBoxIndices)) \/ S.crashed
    THEN {}
    ELSE Let(S.HiddenBoxIndices[S.CurrentHiddenIndex + 1], LAMBDA BoxIdx :
             IF BoxIdx < 0 \/ BoxIdx >= Len(S.PendingBoxes)
             THEN {}
             ELSE IF S.PendingBoxes[BoxIdx + 1].VisibilityMask # 0
             THEN {S.CurrentHiddenIndex} \cup SkippedEntries([S EXCEPT !.CurrentHiddenIndex = @ + 1], RefinedThisTick, MaxCellsPerTick)
             ELSE Let(RefineBox(S.PendingBoxes[BoxIdx + 1]), LAMBDA R :
                      IF R.Fault
                      THEN {}
                      ELSE SkippedEntries([S EXCEPT !.PendingBoxes = Promote(@, BoxIdx, R.bAnyVisible), !.CurrentHiddenIndex = @ + 1],
                                          RefinedThisTick + 1, MaxCellsPerTick)))

\* Variant of FinalizeSubSampling: the counts are not recomputed from the grid.
FinalizeSubSampling_NoRecount(S) ==
    Broadcast([S EXCEPT !.bIsSubSampling = FALSE, !.bIsRunning = FALSE, !.AnalysisResults = S.PendingBoxes])

\* "If sub-sampling finished, finalize"
FinalizeSubSampling(S) ==
    Broadcast([S EXCEPT !.bIsSubSampling = FALSE, !.bIsRunning = FALSE,
                        !.VisibleCount = CountVisible(S.PendingBoxes),
                        !.HiddenCount = CountHidden(S.PendingBoxes),
                        !.AnalysisResults = S.PendingBoxes])

\* Variant of ProcessRowsStep_SubSampling: the finalization test is > instead of >=.
ProcessRowsStep_SubSampling_Strict(S, MaxCellsPerTick) ==
    IF ~S.bIsSubSampling \/ Len(S.HiddenBoxIndices) = 0
    THEN S
    ELSE Let(SubLoop(S, 0, MaxCellsPerTick), LAMBDA S1 :
             IF S1.crashed THEN S1
             ELSE IF S1.CurrentHiddenIndex > Len(S1.HiddenBoxIndices) THEN FinalizeSubSampling(S1)
             ELSE S1)

\* Variant of ProcessRowsStep_SubSampling: the worklist entry at which the
\* budget ended the loop is passed over.
ProcessRowsStep_SubSampling_PassOver(S, MaxCellsPerTick) ==
    IF ~S.bIsSubSampling \/ Len(S.HiddenBoxIndices) = 0
    THEN S
    ELSE Let(SubLoop(S, 0, MaxCellsPerTick), LAMBDA S1 :
             IF S1.crashed THEN S1
             ELSE IF S1.CurrentHiddenIndex >= Len(S1.HiddenBoxIndices) THEN FinalizeSubSampling(S1)
             ELSE [S1 EXCEPT !.CurrentHiddenIndex = @ + 1])

ProcessRowsStep_SubSampling(S, MaxCellsPerTick) ==
    IF ~S.bIsSubSampling \/ Len(S.HiddenBoxIndices) = 0
    THEN S
    ELSE Let(SubLoop(S, 0, MaxCellsPerTick), LAMBDA S1 :
             IF S1.crashed THEN S1
             ELSE IF S1.CurrentHiddenIndex >= Len(S1.HiddenBoxIndices) THEN FinalizeSubSampling(S1)
             ELSE S1)

(***************************************************************************)
(* ProcessRowsStep.                                                        *)
(***************************************************************************)
\* Variant of CollectHidden: the indices are collected from the last cell down.
RECURSIVE CollectHidden_Descending(_, _)
CollectHidden_Descending(Boxes, i) ==
    IF i >= Len(Boxes) THEN <<>>
    ELSE CollectHidden_Descending(Boxes, i + 1) \o (IF Boxes[i + 1].VisibilityMask = 0 THEN <<i>> ELSE <<>>)

\* Variant of CollectHidden: the flag is not tested, every cell is listed.
RECURSIVE CollectHidden_EveryCell(_, _)
CollectHidden_EveryCell(Boxes, i) ==
    IF i >= Len(Boxes) THEN <<>>
    ELSE <<i>> \o CollectHidden_EveryCell(Boxes, i + 1)

\* The loop that fills HiddenBoxIndices, from cell i on.
RECURSIVE CollectHidden(_, _)
CollectHidden(Boxes, i) ==
    IF i >= Len(Boxes) THEN <<>>
    ELSE (IF Boxes[i + 1].VisibilityMask = 0 THEN <<i>> ELSE <<>>) \o CollectHidden(Boxes, i + 1)

\* Variant of FinalizeMain: the event is broadcast before the grid is copied
\* into AnalysisResults.
FinalizeMain_BroadcastFirst(S) ==
    IF ~S.bIsSubSampling
    THEN Let(Broadcast([S EXCEPT !.bIsRunning = FALSE,
                                 !.VisibleCount = CountVisible(S.PendingBoxes),
                                 !.HiddenCount = CountHidden(S.PendingBoxes)]),
             LAMBDA T : [T EXCEPT !.AnalysisResults = T.PendingBoxes])
    ELSE S

\* The "if (!bIsSubSampling)" block that ends a run at the end of the main pass.
FinalizeMain(S) ==
    IF ~S.bIsSubSampling
    THEN Broadcast([S EXCEPT !.bIsRunning = FALSE,
                             !.VisibleCount = CountVisible(S.PendingBoxes),
                             !.HiddenCount = CountHidden(S.PendingBoxes),
                             !.AnalysisResults = S.PendingBoxes])
    ELSE S

\* Variant of SubSamplingDue: bEnableSubSampling is not consulted.
SubSamplingDue_Always(S) == ~S.bIsSubSampling

\* "if (bEnableSubSampling && !bIsSubSampling)"
SubSamplingDue(S) == bEnableSubSampling /\ ~S.bIsSubSampling

\* Variant of MainCompleted: no return after the hand-over to sub-sampling, so
\* the finalization block that follows it runs as well.
MainCompleted_FallThrough(S, RowsProcessed, MaxRowsPerTick) ==
    Let([S EXCEPT !.CurrentCellIndex = Len(S.PendingBoxes),
                  !.mainFlags = [n \in 1..Len(S.PendingBoxes) |-> S.PendingBoxes[n].VisibilityMask]], LAMBDA S1 :
        IF SubSamplingDue(S1)
        THEN Let(CollectHidden(S1.PendingBoxes, 0), LAMBDA Hidden :
             Let([S1 EXCEPT !.HiddenBoxIndices = Hidden, !.bIsSubSampling = Len(Hidden) > 0, !.CurrentHiddenIndex = 0], LAMBDA S2 :
                 IF S2.bIsSubSampling
                 THEN Let([S2 EXCEPT !.bIsRunning = TRUE], LAMBDA S3 :
                          IF MaxRowsPerTick - RowsProcessed > 0
                          THEN Let(ProcessRowsStep_SubSampling(S3, MaxRowsPerTick - RowsProcessed), FinalizeMain)
                          ELSE FinalizeMain(S3))
                 ELSE FinalizeMain(S2)))
        ELSE FinalizeMain(S1))

\* The "if (bMainCompleted)" block; RowsProcessed is what the loop consumed.
MainCompleted(S, RowsProcessed, MaxRowsPerTick) ==
    Let([S EXCEPT !.CurrentCellIndex = Len(S.PendingBoxes),
                  !.mainFlags = [n \in 1..Len(S.PendingBoxes) |-> S.PendingBoxes[n].VisibilityMask]], LAMBDA S1 :
        IF SubSamplingDue(S1)
        THEN Let(CollectHidden(S1.PendingBoxes, 0), LAMBDA Hidden :
             Let([S1 EXCEPT !.HiddenBoxIndices = Hidden, !.bIsSubSampling = Len(Hidden) > 0, !.CurrentHiddenIndex = 0], LAMBDA S2 :
                 IF S2.bIsSubSampling
                 THEN Let([S2 EXCEPT !.bIsRunning = TRUE], LAMBDA S3 :
                          IF MaxRowsPerTick - RowsProcessed > 0
                          THEN ProcessRowsStep_SubSampling(S3, MaxRowsPerTick - RowsProcessed)
                          ELSE S3)
                 ELSE FinalizeMain(S2)))
        ELSE FinalizeMain(S1))

\* Variant of ProcessRowsStep: the hand-over to sub-sampling is given the whole
\* budget instead of what the main loop left.
ProcessRowsStep_WholeBudget(S, MaxRowsPerTick) ==
    IF ~World THEN [S EXCEPT !.bIsRunning = FALSE]
    ELSE IF S.bIsSubSampling THEN ProcessRowsStep_SubSampling(S, MaxRowsPerTick)
    ELSE Let(MainLoop([Boxes |-> S.PendingBoxes, CurrentPhase |-> S.CurrentPhase, CurrentPhaseRowIndex |-> S.CurrentPhaseRowIndex, RowsProcessed |-> 0, Fault |-> FALSE, ScanLog |-> S.scanLog],
                      S.bIsRunning, MaxRowsPerTick), LAMBDA L :
         Let([S EXCEPT !.PendingBoxes = L.Boxes, !.CurrentPhase = L.CurrentPhase, !.CurrentPhaseRowIndex = L.CurrentPhaseRowIndex, !.scanLog = L.ScanLog], LAMBDA S1 :
             IF L.Fault THEN [S1 EXCEPT !.crashed = TRUE]
             ELSE IF S1.CurrentPhase >= 3 THEN MainCompleted(S1, 0, MaxRowsPerTick)
             ELSE S1))

ProcessRowsStep(S, MaxRowsPerTick) ==
    IF ~World THEN [S EXCEPT !.bIsRunning = FALSE]
    ELSE IF S.bIsSubSampling THEN ProcessRowsStep_SubSampling(S, MaxRowsPerTick)
    ELSE Let(MainLoop([Boxes |-> S.PendingBoxes, CurrentPhase |-> S.CurrentPhase, CurrentPhaseRowIndex |-> S.CurrentPhaseRowIndex, RowsProcessed |-> 0, Fault |-> FALSE, ScanLog |-> S.scanLog],
                      S.bIsRunning, MaxRowsPerTick), LAMBDA L :
         Let([S EXCEPT !.PendingBoxes = L.Boxes, !.CurrentPhase = L.CurrentPhase, !.CurrentPhaseRowIndex = L.CurrentPhaseRowIndex, !.scanLog = L.ScanLog], LAMBDA S1 :
             IF L.Fault THEN [S1 EXCEPT !.crashed = TRUE]
             ELSE IF S1.CurrentPhase >= 3 THEN MainCompleted(S1, L.RowsProcessed, MaxRowsPerTick)
             ELSE IF S1.bIsSubSampling /\ MaxRowsPerTick - L.RowsProcessed > 0
             THEN ProcessRowsStep_SubSampling(S1, MaxRowsPerTick - L.RowsProcessed)
             ELSE S1))

(***************************************************************************)
(* Inputs.  The volume boxes a caller may configure: no corner, a corner   *)
(* whose pointer is not valid, a single corner, two opposite corners of a  *)
(* cube.  The sample counts: every triple within 1..MaxCount, and triples  *)
(* with a zero or negative count, which StartAnalysis does not reject.     *)
(***************************************************************************)
Block(lo, hi) == [lo |-> lo, hi |-> hi]

NoPointBox == EmptyLinkedBox

NullPointBox == [Points |-> [c \in {"Bottom_Backward_Left"} |-> NullPoint], VisibilityMask |-> 0]

OnePointBox == SetBoxPoint(EmptyLinkedBox, "Bottom_Backward_Left", <<0, 0, 0>>)

TwoPointBox == SetBoxPoint(OnePointBox, "Top_Forward_Right", <<7200, 7200, 7200>>)

ValidTriples == {c \in (1..MaxCount) \X (1..MaxCount) \X (1..MaxCount) : c[1] * c[2] * c[3] <= MaxCells}

\* The grids of the lifecycle specification: each count is 1 or MaxCount.
LifecycleTriples == {c \in ValidTriples : \A k \in 1..3 : c[k] \in {1, MaxCount}}

BadTriples == {<<0, 1, 1>>, <<1, 0, 1>>, <<1, 1, 0>>, <<0, 0, 0>>, <<-1, 1, 1>>, <<-1, -1, 1>>, <<MaxCount, -1, -1>>}

StartInputs ==
    {[VolumeBox |-> TwoPointBox, Counts |-> c] : c \in LifecycleTriples \cup BadTriples}
    \cup {[VolumeBox |-> OnePointBox, Counts |-> c] : c \in {<<1, 1, 1>>, <<MaxCount, 1, 1>>, <<0, 1, 1>>}}
    \cup {[VolumeBox |-> b, Counts |-> <<1, 1, 1>>] : b \in {NoPointBox, NullPointBox}}

\* The inputs explored when StartAnalysis is called again on an actor that holds a grid.
RestartInputs ==
    {[VolumeBox |-> TwoPointBox, Counts |-> c] : c \in {<<1, 1, 1>>, <<MaxCount, 1, 1>>, <<0, 1, 1>>}}
    \cup {[VolumeBox |-> b, Counts |-> <<1, 1, 1>>] : b \in {NoPointBox, NullPointBox, OnePointBox}}

Scenes ==
    {{},
     {Block(<<0, 0, 0>>, <<7200, 7200, 7200>>)},
     {Block(<<0, 0, 0>>, <<1000, 7200, 7200>>)},
     {Block(<<3600, 0, 0>>, <<3600, 7200, 7200>>)},
     {Block(<<1700, 1700, 1700>>, <<1900, 1900, 1900>>)},
     {Block(<<0, 0, 0>>, <<1000, 7200, 7200>>), Block(<<4600, 0, 0>>, <<7200, 7200, 7200>>)}}

SubCountTriples == {<<1, 1, 1>>, <<MaxSubCount, 1, 1>>, <<MaxSubCount, MaxSubCount, MaxSubCount>>}

TraceDistances == {0, 1000, 4000, 20000}

(***************************************************************************)
(* Init: the actor as constructed and placed, with its step-time           *)
(* properties configured and a scene around it.                            *)
(***************************************************************************)
InitActor ==
    /\ AnalysisResults = <<>>
    /\ VisibleCount = 0
    /\ HiddenCount = 0
    /\ PendingBoxes = <<>>
    /\ CurrentCellIndex = 0
    /\ bIsRunning = FALSE
    /\ GridCountX = 0
    /\ GridCountY = 0
    /\ GridCountZ = 0
    /\ CellSizeX = 0
    /\ CellSizeY = 0
    /\ CellSizeZ = 0
    /\ bIsSubSampling = FALSE
    /\ HiddenBoxIndices = <<>>
    /\ CurrentHiddenIndex = 0
    /\ CurrentPhase = 0
    /\ CurrentPhaseRowIndex = 0
    /\ completions = 0
    /\ eventPayload = <<>>
    /\ lastOp = "Init"
    /\ crashed = FALSE
    /\ scanLog = <<>>
    /\ mainFlags = <<>>
    /\ refineLog = <<>>

\* An environment: the scene and the step-time properties of the actor.
Env(sc, bUse, bEnable, sub, dist) == [scene |-> sc, bUseCenterOverlapTest |-> bUse, bEnableSubSampling |-> bEnable, Sub |-> sub, MaxTraceDistance |-> dist]

AllEnvs == {Env(sc, bUse, bEnable, sub, dist) : sc \in Scenes, bUse \in BOOLEAN, bEnable \in BOOLEAN, sub \in SubCountTriples, dist \in TraceDistances}

\* The environments of the lifecycle specification: with the center test on,
\* scenes that leave no cell, every cell and some cells hidden.
LifecycleEnvs ==
    {e \in AllEnvs :
        /\ e.MaxTraceDistance = 0
        /\ e.Sub \in {<<1, 1, 1>>, <<MaxSubCount, 1, 1>>}
        /\ \/ ~e.bUseCenterOverlapTest /\ e.bEnableSubSampling /\ e.scene = {} /\ e.Sub = <<1, 1, 1>>
           \/ e.bUseCenterOverlapTest /\ e.bEnableSubSampling /\ e.scene \in {{}, {Block(<<0, 0, 0>>, <<7200, 7200, 7200>>)}, {Block(<<0, 0, 0>>, <<1000, 7200, 7200>>)}}
           \/ e.bUseCenterOverlapTest /\ ~e.bEnableSubSampling /\ e.scene = {Block(<<0, 0, 0>>, <<1000, 7200, 7200>>)} /\ e.Sub = <<1, 1, 1>>}

InitEnv(E) ==
    \E e \in E :
        /\ scene = e.scene
        /\ MaxTraceDistance = e.MaxTraceDistance
        /\ bUseCenterOverlapTest = e.bUseCenterOverlapTest
        /\ bEnableSubSampling = e.bEnableSubSampling
        /\ SubSampleCountX = e.Sub[1]
        /\ SubSampleCountY = e.Sub[2]
        /\ SubSampleCountZ = e.Sub[3]

InitProps ==
    /\ World = TRUE
    /\ VolumeBox = EmptyLinkedBox
    /\ SampleCountX = 1
    /\ SampleCountY = 1
    /\ SampleCountZ = 1
    /\ RowsPerTick = 1
    /\ CenterOverlapRadius = 0

\* No function of the library has been called.
NoCall == [op |-> "None", in |-> <<>>, out |-> <<>>]

\* No box is held for linking.
InitLink == sharedPoints = <<>> /\ linkedBoxes = <<>> /\ linkGroup = <<>>

\* No row scan is being followed.
NoScan == [Stage |-> "None", YIndex |-> 0, ZIndex |-> 0, StartI |-> 0, Probes |-> <<>>]

InitLib == libCall = NoCall /\ InitLink /\ rowScan = NoScan /\ tickCount = 0

Init == InitEnv(LifecycleEnvs) /\ InitProps /\ InitActor /\ InitLib

(***************************************************************************)
(* Operations.                                                             *)
(***************************************************************************)
\* Variant of StartAnalysisBody: the scan position and the sub-sampling
\* bookkeeping of the run in flight are kept.
StartAnalysisBody_KeepScan(S, Box, CountX, CountY, CountZ) ==
    IF ~World THEN S
    ELSE Let(LinkedBox_GetAABB(Box), LAMBDA AABB :
             IF ~AABB.IsValid THEN S
             ELSE Let(GenerateVoxelGridBoxes_ByCounts(AABB, CountX, CountY, CountZ), LAMBDA Grid :
                      [S EXCEPT !.PendingBoxes = [n \in 1..Len(Grid) |-> [Grid[n] EXCEPT !.VisibilityMask = 0]],
                                !.GridCountX = CountX, !.GridCountY = CountY, !.GridCountZ = CountZ,
                                !.CellSizeX = IF CountX > 0 THEN (AABB.Max[1] - AABB.Min[1]) \div CountX ELSE 0,
                                !.CellSizeY = IF CountY > 0 THEN (AABB.Max[2] - AABB.Min[2]) \div CountY ELSE 0,
                                !.CellSizeZ = IF CountZ > 0 THEN (AABB.Max[3] - AABB.Min[3]) \div CountZ ELSE 0,
                                !.AnalysisResults = <<>>, !.VisibleCount = 0, !.HiddenCount = 0,
                                !.CurrentCellIndex = 0,
                                !.bIsRunning = TRUE,
                                !.completions = 0, !.eventPayload = <<>>, !.scanLog = <<>>, !.mainFlags = <<>>, !.refineLog = <<>>]))

\* Variant of StartAnalysisBody: the results and counts of the run before are kept.
StartAnalysisBody_KeepResults(S, Box, CountX, CountY, CountZ) ==
    IF ~World THEN S
    ELSE Let(LinkedBox_GetAABB(Box), LAMBDA AABB :
             IF ~AABB.IsValid THEN S
             ELSE Let(GenerateVoxelGridBoxes_ByCounts(AABB, CountX, CountY, CountZ), LAMBDA Grid :
                      [S EXCEPT !.PendingBoxes = [n \in 1..Len(Grid) |-> [Grid[n] EXCEPT !.VisibilityMask = 0]],
                                !.GridCountX = CountX, !.GridCountY = CountY, !.GridCountZ = CountZ,
                                !.CellSizeX = IF CountX > 0 THEN (AABB.Max[1] - AABB.Min[1]) \div CountX ELSE 0,
                                !.CellSizeY = IF CountY > 0 THEN (AABB.Max[2] - AABB.Min[2]) \div CountY ELSE 0,
                                !.CellSizeZ = IF CountZ > 0 THEN (AABB.Max[3] - AABB.Min[3]) \div CountZ ELSE 0,
                                !.bIsSubSampling = FALSE, !.HiddenBoxIndices = <<>>, !.CurrentHiddenIndex = 0,
                                !.CurrentCellIndex = 0, !.CurrentPhase = 0, !.CurrentPhaseRowIndex = 0,
                                !.bIsRunning = TRUE,
                                !.completions = 0, !.eventPayload = <<>>, !.scanLog = <<>>, !.mainFlags = <<>>, !.refineLog = <<>>]))

\* The body of StartAnalysis on the properties as configured.
StartAnalysisBody(S, Box, CountX, CountY, CountZ) ==
    IF ~World THEN S
    ELSE Let(LinkedBox_GetAABB(Box), LAMBDA AABB :
             IF ~AABB.IsValid THEN S
             ELSE Let(GenerateVoxelGridBoxes_ByCounts(AABB, CountX, CountY, CountZ), LAMBDA Grid :
                      [S EXCEPT !.PendingBoxes = [n \in 1..Len(Grid) |-> [Grid[n] EXCEPT !.VisibilityMask = 0]],
                                !.GridCountX = CountX, !.GridCountY = CountY, !.GridCountZ = CountZ,
                                !.CellSizeX = IF CountX > 0 THEN (AABB.Max[1] - AABB.Min[1]) \div CountX ELSE 0,
                                !.CellSizeY = IF CountY > 0 THEN (AABB.Max[2] - AABB.Min[2]) \div CountY ELSE 0,
                                !.CellSizeZ = IF CountZ > 0 THEN (AABB.Max[3] - AABB.Min[3]) \div CountZ ELSE 0,
                                !.AnalysisResults = <<>>, !.VisibleCount = 0, !.HiddenCount = 0,
                                !.bIsSubSampling = FALSE, !.HiddenBoxIndices = <<>>, !.CurrentHiddenIndex = 0,
                                !.CurrentCellIndex = 0, !.CurrentPhase = 0, !.CurrentPhaseRowIndex = 0,
                                !.bIsRunning = TRUE,
                                !.completions = 0, !.eventPayload = <<>>, !.scanLog = <<>>, !.mainFlags = <<>>, !.refineLog = <<>>]))

\* The caller sets VolumeBox and the sample counts, then calls StartAnalysis.
StartAnalysisWith(Inputs) ==
    /\ ~crashed
    /\ \E in \in Inputs :
          /\ VolumeBox' = in.VolumeBox
          /\ SampleCountX' = in.Counts[1]
          /\ SampleCountY' = in.Counts[2]
          /\ SampleCountZ' = in.Counts[3]
          /\ Commit(StartAnalysisBody(Cur, in.VolumeBox, in.Counts[1], in.Counts[2], in.Counts[3]))
    /\ lastOp' = "StartAnalysis"
    /\ UNCHANGED <<envVars, RowsPerTick, stepPropVars, libVars>>

StartAnalysis ==
    StartAnalysisWith(IF ~World THEN {[VolumeBox |-> TwoPointBox, Counts |-> <<1, 1, 1>>]}
                      ELSE IF PendingBoxes = <<>> THEN StartInputs ELSE RestartInputs)

StopAnalysisBody(S) == [S EXCEPT !.bIsRunning = FALSE, !.bIsSubSampling = FALSE]

StopAnalysis ==
    /\ ~crashed
    /\ Commit(StopAnalysisBody(Cur))
    /\ lastOp' = "StopAnalysis"
    /\ UNCHANGED <<envVars, propVars, libVars>>

\* Variant of ClearResultsBody: the run in flight is not stopped first.
ClearResultsBody_NoStop(S) ==
    [S EXCEPT !.AnalysisResults = <<>>, !.PendingBoxes = <<>>,
              !.VisibleCount = 0, !.HiddenCount = 0,
              !.GridCountX = 0, !.GridCountY = 0, !.GridCountZ = 0,
              !.CellSizeX = 0, !.CellSizeY = 0, !.CellSizeZ = 0,
              !.HiddenBoxIndices = <<>>, !.CurrentHiddenIndex = 0,
              !.CurrentCellIndex = 0, !.CurrentPhase = 0, !.CurrentPhaseRowIndex = 0,
              !.scanLog = <<>>, !.mainFlags = <<>>, !.refineLog = <<>>]

ClearResultsBody(S) ==
    [StopAnalysisBody(S) EXCEPT !.AnalysisResults = <<>>, !.PendingBoxes = <<>>,
                                !.VisibleCount = 0, !.HiddenCount = 0,
                                !.GridCountX = 0, !.GridCountY = 0, !.GridCountZ = 0,
                                !.CellSizeX = 0, !.CellSizeY = 0, !.CellSizeZ = 0,
                                !.HiddenBoxIndices = <<>>, !.CurrentHiddenIndex = 0,
                                !.CurrentCellIndex = 0, !.CurrentPhase = 0, !.CurrentPhaseRowIndex = 0,
                                !.scanLog = <<>>, !.mainFlags = <<>>, !.refineLog = <<>>]

ClearResults ==
    /\ ~crashed
    /\ Commit(ClearResultsBody(Cur))
    /\ lastOp' = "ClearResults"
    /\ UNCHANGED <<envVars, propVars, libVars>>

\* Variant of TickBody: the step is called whether or not a run is active.
TickBody_Unguarded(S) == ProcessRowsStep(S, RowsPerTick)

\* Tick: one step with the RowsPerTick budget while running, nothing otherwise.
TickBody(S) == IF S.bIsRunning THEN ProcessRowsStep(S, RowsPerTick) ELSE S

Tick ==
    /\ ~crashed
    /\ Commit(TickBody(Cur))
    /\ lastOp' = "Tick"
    /\ UNCHANGED <<envVars, propVars, libVars>>

\* The owner edits RowsPerTick between ticks.
SetRowsPerTick ==
    /\ ~crashed
    /\ \E b \in {1, MaxBudget} : b # RowsPerTick /\ RowsPerTick' = b
    /\ UNCHANGED <<envVars, VolumeBox, SampleCountX, SampleCountY, SampleCountZ, stepPropVars, actorVars, ghostVars, libVars>>

\* The actor leaves or enters a world.
SetWorld ==
    /\ ~crashed
    /\ World' = ~World
    /\ lastOp' = "SetWorld"
    /\ UNCHANGED <<scene, propVars, actorVars, completions, eventPayload, crashed, scanLog, mainFlags, refineLog, libVars>>

Next == StartAnalysis \/ StopAnalysis \/ ClearResults \/ Tick \/ SetRowsPerTick \/ SetWorld

Spec == Init /\ [][Next]_vars

(***************************************************************************)
(* A run under fair ticking: the caller starts the actor once, and from    *)
(* then on only the engine ticks it (the owner may still edit RowsPerTick  *)
(* between ticks).  An actor with ticking enabled is ticked every frame.   *)
(***************************************************************************)
FirstStart == lastOp = "Init" /\ StartAnalysis

NextLive == FirstStart \/ Tick \/ SetRowsPerTick

SpecLive == Init /\ [][NextLive]_vars /\ WF_vars(Tick)

(***************************************************************************)
(* A run in a scene that changes between ticks: geometry enters and leaves *)
(* the volume while the scan is in progress.                               *)
(***************************************************************************)
DynScenes ==
    {{},
     {Block(<<0, 0, 0>>, <<7200, 7200, 7200>>)},
     {Block(<<0, 0, 0>>, <<1000, 7200, 7200>>)}}

DynEnvs ==
    {e \in AllEnvs :
        /\ e.scene = {}
        /\ e.bUseCenterOverlapTest
        /\ e.bEnableSubSampling
        /\ e.Sub = <<MaxSubCount, 1, 1>>
        /\ e.MaxTraceDistance = 0}

InitDyn == InitEnv(DynEnvs) /\ InitProps /\ InitActor /\ InitLib

DynInputs ==
    {[VolumeBox |-> TwoPointBox, Counts |-> c] : c \in {t \in ValidTriples : t[3] = 1 /\ t[1] * t[2] <= MaxCells \div 2}}
    \cup {[VolumeBox |-> NoPointBox, Counts |-> <<1, 1, 1>>]}

StartAnalysisDyn == StartAnalysisWith(DynInputs)

SetScene ==
    /\ ~crashed
    /\ \E sc \in DynScenes : sc # scene /\ scene' = sc
    /\ lastOp' = "SetScene"
    /\ UNCHANGED <<World, propVars, actorVars, completions, eventPayload, crashed, scanLog, mainFlags, refineLog, libVars>>

NextDyn == StartAnalysisDyn \/ StopAnalysis \/ Tick \/ SetScene

SpecDyn == InitDyn /\ [][NextDyn]_vars

(***************************************************************************)
(* Steps under any budget: one start on a fresh actor, then ticks, with    *)
(* RowsPerTick set from code to any value, zero and negative included.     *)
(***************************************************************************)
BudgetValues == (-1)..MaxBudget

BudgetEnvs ==
    {e \in AllEnvs :
        /\ e.MaxTraceDistance = 0
        /\ e.bUseCenterOverlapTest
        /\ e.Sub = <<1, 1, 1>>
        /\ e.scene \in {{Block(<<0, 0, 0>>, <<7200, 7200, 7200>>)}, {Block(<<0, 0, 0>>, <<1000, 7200, 7200>>)}}}

InitBudget == InitEnv(BudgetEnvs) /\ InitProps /\ InitActor /\ InitLib

BudgetInputs == {[VolumeBox |-> TwoPointBox, Counts |-> c] : c \in LifecycleTriples}

StartAnalysisBudget == lastOp = "Init" /\ StartAnalysisWith(BudgetInputs)

SetBudget ==
    /\ ~crashed
    /\ \E b \in BudgetValues : b # RowsPerTick /\ RowsPerTick' = b
    /\ UNCHANGED <<envVars, VolumeBox, SampleCountX, SampleCountY, SampleCountZ, stepPropVars, actorVars, ghostVars, libVars>>

\* Tick calls the step with RowsPerTick whenever the controller is running.
NextBudget == StartAnalysisBudget \/ Tick \/ SetBudget

SpecBudget == InitBudget /\ [][NextBudget]_vars

\* The number of rows and columns of the main pass scanned before the
\* position (Phase, RowIdx).
RowOrdinal(Phase, RowIdx) ==
    (IF Phase > 0 THEN Max2(PhaseTotal(0), 0) ELSE 0)
    + (IF Phase > 1 THEN Max2(PhaseTotal(1), 0) ELSE 0)
    + (IF Phase > 2 THEN Max2(PhaseTotal(2), 0) ELSE RowIdx)

\* Row scans made and hidden cells taken off the worklist by the step.
RowsScanned == RowOrdinal(CurrentPhase', CurrentPhaseRowIndex') - RowOrdinal(CurrentPhase, CurrentPhaseRowIndex)

CellsRefined == CurrentHiddenIndex' - CurrentHiddenIndex

(***************************************************************************)
(* Runs in an open scene: nothing to hit, center test off, any trace       *)
(* distance, any grid, any budget.                                         *)
(***************************************************************************)
OpenEnvs == {e \in AllEnvs : e.scene = {} /\ ~e.bUseCenterOverlapTest /\ e.Sub = <<MaxSubCount, 1, 1>>}

InitOpen == InitEnv(OpenEnvs) /\ InitProps /\ InitActor /\ InitLib

OpenInputs == {[VolumeBox |-> TwoPointBox, Counts |-> c] : c \in ValidTriples}

StartAnalysisOpen == lastOp = "Init" /\ StartAnalysisWith(OpenInputs)

NextOpen == StartAnalysisOpen \/ Tick \/ SetRowsPerTick

SpecOpen == InitOpen /\ [][NextOpen]_vars

\* The main pass of the current grid has ended.
MainPassDone == CurrentPhase >= 3

(***************************************************************************)
(* Runs that refine hidden cells: center test and sub-sampling on, every   *)
(* scene, every sub-grid, unlimited and short traces.                      *)
(***************************************************************************)
SubEnvs == {e \in AllEnvs : e.bUseCenterOverlapTest /\ e.bEnableSubSampling /\ e.MaxTraceDistance \in {0, 1000}}

InitSub == InitEnv(SubEnvs) /\ InitProps /\ InitActor /\ InitLib

SubInputs == {[VolumeBox |-> TwoPointBox, Counts |-> c] : c \in {<<1, 1, 1>>, <<MaxCount, 1, 1>>, <<1, MaxCount, 1>>}}

StartAnalysisSub == lastOp = "Init" /\ StartAnalysisWith(SubInputs)

NextSub == StartAnalysisSub \/ Tick \/ SetRowsPerTick

SpecSub == InitSub /\ [][NextSub]_vars

\* The centers of the sub-cells of the SubSampleCountX x SubSampleCountY x
\* SubSampleCountZ grid laid in the AABB of Box.
SubCellCenters(Box) ==
    Let(LinkedBox_GetAABB(Box), LAMBDA A :
        {<<A.Min[1] + ((2 * x + 1) * (A.Max[1] - A.Min[1])) \div (2 * SubSampleCountX),
           A.Min[2] + ((2 * y + 1) * (A.Max[2] - A.Min[2])) \div (2 * SubSampleCountY),
           A.Min[3] + ((2 * z + 1) * (A.Max[3] - A.Min[3])) \div (2 * SubSampleCountZ)>> :
            x \in 0..(SubSampleCountX - 1), y \in 0..(SubSampleCountY - 1), z \in 0..(SubSampleCountZ - 1)})

\* The cells of the hidden worklist that have been refined.
RefinedCells == {HiddenBoxIndices[k] + 1 : k \in 1..Min2(CurrentHiddenIndex, Len(HiddenBoxIndices))}

(***************************************************************************)
(* Direct calls of GenerateVoxelGridBoxes_ByCounts.  Coordinates are       *)
(* integers; the calls explored are those whose divisions are exact, so    *)
(* that the quotient of the model is the quotient of the code.             *)
(***************************************************************************)
FBox(Min, Max) == [IsValid |-> TRUE, Min |-> Min, Max |-> Max]

\* FBox(ForceInit)
InvalidFBox == [IsValid |-> FALSE, Min |-> ZeroVector, Max |-> ZeroVector]

GridBoxes ==
    {InvalidFBox,
     FBox(<<0, 0, 0>>, <<2, 2, 2>>),
     FBox(<<0, 0, 0>>, <<7200, 7200, 7200>>),
     FBox(<<-600, 1200, 0>>, <<600, 2400, 7200>>),
     FBox(<<5, 5, 5>>, <<5, 5, 5>>)}

GridCounts == ((-1)..MaxCount) \X ((-1)..MaxCount) \X ((-1)..MaxCount)

ExactSteps(Box, Counts) == \A k \in 1..3 : Counts[k] <= 0 \/ (Box.Max[k] - Box.Min[k]) % Counts[k] = 0

GridInputs == {in \in [Box : GridBoxes, Counts : GridCounts] : ExactSteps(in.Box, in.Counts)}

CallGenerateVoxelGrid ==
    /\ \E in \in GridInputs :
          libCall' = [op |-> "GenerateVoxelGridBoxes_ByCounts", in |-> in,
                      out |-> GenerateVoxelGridBoxes_ByCounts(in.Box, in.Counts[1], in.Counts[2], in.Counts[3])]
    /\ UNCHANGED <<envVars, propVars, actorVars, ghostVars, linkVars, rowScan, tickCount>>

\* The library is called on its own: an actor is present, idle, in an empty scene.
InitLibrary == InitEnv({Env({}, FALSE, FALSE, <<1, 1, 1>>, 0)}) /\ InitProps /\ InitActor /\ InitLib

NextGrid == CallGenerateVoxelGrid

SpecGrid == InitLibrary /\ [][NextGrid]_vars

\* A call of GenerateVoxelGridBoxes_ByCounts has returned.
Generated == libCall.op = "GenerateVoxelGridBoxes_ByCounts"

\* The call was made with a valid box and counts >= 1.
GridArgsValid == libCall.in.Box.IsValid /\ \A k \in 1..3 : libCall.in.Counts[k] >= 1

\* The quotient extent / count along axis k, for the box and counts of the call.
StepOf(k) == CHOOSE st \in 0..(libCall.in.Box.Max[k] - libCall.in.Box.Min[k]) : st * libCall.in.Counts[k] = libCall.in.Box.Max[k] - libCall.in.Box.Min[k]

\* The cell of the returned array at grid position (xi, yi, zi), in the
\* Z-major, then Y, then X layout.
CellAt(xi, yi, zi) == libCall.out[zi * libCall.in.Counts[2] * libCall.in.Counts[1] + yi * libCall.in.Counts[1] + xi + 1]

GridPositions == (0..(libCall.in.Counts[1] - 1)) \X (0..(libCall.in.Counts[2] - 1)) \X (0..(libCall.in.Counts[3] - 1))

(***************************************************************************)
(* JSON conversion of a linked box.  An FJsonObject is a function from     *)
(* field names to JSON values; a JSON value is a number (a double) or an   *)
(* object.  The enum names come from the reflection table of               *)
(* EE_Box_8Point, in declaration order.                                    *)
(***************************************************************************)
EnumNames == <<"Top_Forward_Right", "Top_Forward_Left", "Top_Backward_Right", "Top_Backward_Left", "Bottom_Forward_Right", "Bottom_Forward_Left", "Bottom_Backward_Right", "Bottom_Backward_Left">>

EnumDisplayNames == <<"Top Forward Right", "Top Forward Left", "Top Backward Right", "Top Backward Left", "Bottom Forward Right", "Bottom Forward Left", "Bottom Backward Right", "Bottom Backward Left">>

\* static_cast<int64>(Corner)
CornerValue(Corner) ==
    CASE Corner = "Top_Forward_Right" -> 0
      [] Corner = "Top_Forward_Left" -> 1
      [] Corner = "Top_Backward_Right" -> 2
      [] Corner = "Top_Backward_Left" -> 3
      [] Corner = "Bottom_Forward_Right" -> 4
      [] Corner = "Bottom_Forward_Left" -> 5
      [] Corner = "Bottom_Backward_Right" -> 6
      [] Corner = "Bottom_Backward_Left" -> 7

INDEX_NONE == -1

GetNameStringByValue(Value) == IF Value \in 0..7 THEN EnumNames[Value + 1] ELSE ""

GetValueByNameString(Name) ==
    IF \E v \in 0..7 : EnumNames[v + 1] = Name
    THEN CHOOSE v \in 0..7 : EnumNames[v + 1] = Name
    ELSE INDEX_NONE

\* Variant of EnumToString: the display name of the enumerator is written.
EnumToString_DisplayName(Corner) == EnumDisplayNames[CornerValue(Corner) + 1]

EnumToString(Corner) == GetNameStringByValue(CornerValue(Corner))

StringToEnum(Name) ==
    Let(GetValueByNameString(Name), LAMBDA Value :
        IF Value # INDEX_NONE
        THEN [bOk |-> TRUE, OutCorner |-> CHOOSE c \in EE_Box_8Point : CornerValue(c) = Value]
        ELSE [bOk |-> FALSE, OutCorner |-> "Top_Forward_Right"])

JsonNumber(d) == [kind |-> "Number", number |-> d]

JsonObject(fields) == [kind |-> "Object", fields |-> fields]

\* The (float) cast of a double with an integer value: exact up to 2^24,
\* beyond that rounded to the nearest multiple of the float's unit in the
\* last place, ties to the even multiple.
RECURSIVE FloatUlp(_, _)
FloatUlp(a, u) == IF a <= 16777216 * u THEN u ELSE FloatUlp(a, 2 * u)

FloatCast(d) ==
    Let(FloatUlp(Abs(d), 1), LAMBDA u :
    Let(Abs(d) \div u, LAMBDA q :
    Let(Abs(d) % u, LAMBDA r :
        (IF d < 0 THEN -1 ELSE 1) * u * (IF 2 * r > u \/ (2 * r = u /\ q % 2 = 1) THEN q + 1 ELSE q))))

MakeJsonFromVector(V) == JsonObject([X |-> JsonNumber(V[1]), Y |-> JsonNumber(V[2]), Z |-> JsonNumber(V[3])])

MakeJsonFromLinkedBox(InBox) ==
    Let({c \in DOMAIN InBox.Points : IsSharedPointValid(InBox.Points[c])}, LAMBDA Valid :
        JsonObject([VisibilityMask |-> JsonNumber(InBox.VisibilityMask),
                    Points |-> JsonObject([Key \in {EnumToString(c) : c \in Valid} |->
                                              MakeJsonFromVector(GetPoint(InBox.Points[CHOOSE c \in Valid : EnumToString(c) = Key]))])]))

TryGetNumberField(Obj, FieldName) ==
    IF FieldName \in DOMAIN Obj.fields /\ Obj.fields[FieldName].kind = "Number"
    THEN [bOk |-> TRUE, Value |-> Obj.fields[FieldName].number]
    ELSE [bOk |-> FALSE, Value |-> 0]

JsonToVector(Value) ==
    IF Value.kind # "Object" THEN [bOk |-> FALSE, Out |-> ZeroVector]
    ELSE Let(<<TryGetNumberField(Value, "X"), TryGetNumberField(Value, "Y"), TryGetNumberField(Value, "Z")>>, LAMBDA N :
             IF N[1].bOk /\ N[2].bOk /\ N[3].bOk
             THEN [bOk |-> TRUE, Out |-> <<FloatCast(N[1].Value), FloatCast(N[2].Value), FloatCast(N[3].Value)>>]
             ELSE [bOk |-> FALSE, Out |-> ZeroVector])

\* static_cast<uint8>((int32)VM & 0xFF)
MaskOfNumber(VM) == VM % 256

\* The loop over PointsObj->Values, one key after the other.
RECURSIVE ReadPoints(_, _, _)
ReadPoints(PointsObj, Keys, OutBox) ==
    IF Keys = {} THEN OutBox
    ELSE Let(CHOOSE k \in Keys : TRUE, LAMBDA Key :
         Let(StringToEnum(Key), LAMBDA E :
         Let(IF E.bOk THEN JsonToVector(PointsObj.fields[Key]) ELSE [bOk |-> FALSE, Out |-> ZeroVector], LAMBDA P :
             ReadPoints(PointsObj, Keys \ {Key}, IF E.bOk /\ P.bOk THEN SetBoxPoint(OutBox, E.OutCorner, P.Out) ELSE OutBox))))

JsonObjectToLinkedBox(Root, OutBox) ==
    Let(TryGetNumberField(Root, "VisibilityMask"), LAMBDA VM :
    Let([OutBox EXCEPT !.VisibilityMask = IF VM.bOk THEN MaskOfNumber(VM.Value) ELSE 0], LAMBDA Box1 :
        [bOk |-> TRUE,
         OutBox |-> IF "Points" \in DOMAIN Root.fields /\ Root.fields["Points"].kind = "Object"
                    THEN ReadPoints(Root.fields["Points"], DOMAIN Root.fields["Points"].fields, Box1)
                    ELSE Box1]))

\* LinkedBox_ToJsonString then LinkedBox_FromJsonString: the document the
\* engine's writer produces is read back by the engine's reader as the same
\* tree of fields and numbers.
LinkedBox_ToJsonString(InBox) == [bOk |-> TRUE, OutJson |-> MakeJsonFromLinkedBox(InBox)]

LinkedBox_FromJsonString(InJson) == JsonObjectToLinkedBox(InJson, EmptyLinkedBox)

\* The cells handed to the conversion: all 8 corners set, coordinates that
\* single precision represents (small, large and negative), any mask.
JsonCells ==
    {[MakeVoxel(lo[1], hi[1], lo[2], hi[2], lo[3], hi[3]) EXCEPT !.VisibilityMask = m] :
        lo \in {-16777218, 0} \X {-16777218, 0} \X {-3600, 0},
        hi \in {3600, 16777218} \X {3600, 16777218} \X {3600},
        m \in {0, 1, 2, 255}}

\* Boxes with corners missing or not valid.
JsonPartialBoxes == {[b EXCEPT !.VisibilityMask = m] : b \in {NoPointBox, NullPointBox, OnePointBox, TwoPointBox}, m \in {0, 1}}

CallJsonRoundTrip ==
    /\ \E InBox \in JsonCells \cup JsonPartialBoxes :
          \E W \in {LinkedBox_ToJsonString(InBox)} :
              libCall' = [op |-> "LinkedBox_FromJsonString", in |-> [Box |-> InBox, Json |-> W.OutJson],
                          out |-> LinkedBox_FromJsonString(W.OutJson)]
    /\ UNCHANGED <<envVars, propVars, actorVars, ghostVars, linkVars, rowScan, tickCount>>

NextJson == CallJsonRoundTrip

SpecJson == InitLibrary /\ [][NextJson]_vars

\* A box was written and read back.
RoundTripped == libCall.op = "LinkedBox_FromJsonString"

\* The box written had all 8 corners populated.
AllCornersPopulated(Box) == DOMAIN Box.Points = EE_Box_8Point /\ \A c \in EE_Box_8Point : IsSharedPointValid(Box.Points[c])

(***************************************************************************)
(* Reading persisted documents that were not written by the library:       *)
(* corner objects with a coordinate missing, keys that name no corner,     *)
(* values that are not objects, fields absent; alone and in arrays.        *)
(***************************************************************************)
JsonArray(items) == [kind |-> "Array", items |-> items]

\* The values found under a corner key: a full vector, a vector with one
\* coordinate missing, a number.
CornerValues ==
    {MakeJsonFromVector(<<1, 2, 3>>),
     JsonObject([Y |-> JsonNumber(2), Z |-> JsonNumber(3)]),
     JsonObject([X |-> JsonNumber(1), Z |-> JsonNumber(3)]),
     JsonObject([X |-> JsonNumber(1), Y |-> JsonNumber(2)]),
     JsonNumber(7)}

\* The Points objects: two corner keys, with or without a key that names no corner.
PointsObjects ==
    {JsonObject([Top_Forward_Right |-> a, Bottom_Backward_Left |-> b]) : a \in CornerValues, b \in CornerValues}
    \cup {JsonObject([Top_Forward_Right |-> a, Bottom_Backward_Left |-> b, Center |-> MakeJsonFromVector(<<9, 9, 9>>)]) : a \in CornerValues, b \in CornerValues}

CellDocuments ==
    {JsonObject([VisibilityMask |-> JsonNumber(1), Points |-> p]) : p \in PointsObjects}
    \cup {JsonObject([Points |-> p]) : p \in PointsObjects}
    \cup {JsonObject([VisibilityMask |-> JsonNumber(1)])}

\* The entries of the arrays explored: a well-formed cell, a cell with a key
\* that names no corner, a cell with a corner lacking Z, a number.
ArrayEntries ==
    {JsonObject([VisibilityMask |-> JsonNumber(1), Points |-> JsonObject([Top_Forward_Right |-> MakeJsonFromVector(<<1, 2, 3>>), Bottom_Backward_Left |-> MakeJsonFromVector(<<1, 2, 3>>)])]),
     JsonObject([VisibilityMask |-> JsonNumber(1), Points |-> JsonObject([Top_Forward_Right |-> MakeJsonFromVector(<<1, 2, 3>>), Bottom_Backward_Left |-> MakeJsonFromVector(<<1, 2, 3>>), Center |-> MakeJsonFromVector(<<9, 9, 9>>)])]),
     JsonObject([VisibilityMask |-> JsonNumber(1), Points |-> JsonObject([Top_Forward_Right |-> MakeJsonFromVector(<<1, 2, 3>>), Bottom_Backward_Left |-> JsonObject([X |-> JsonNumber(1), Y |-> JsonNumber(2)])])]),
     JsonNumber(7)}

ArrayDocuments == {JsonArray(<<>>)} \cup {JsonArray(<<a>>) : a \in ArrayEntries} \cup {JsonArray(<<a, b>>) : a \in ArrayEntries, b \in ArrayEntries}

\* The loop over the array's values: entries that are not objects are
\* skipped, the others are converted and added when the conversion succeeds.
RECURSIVE ReadBoxes(_, _)
ReadBoxes(Arr, i) ==
    IF i > Len(Arr) THEN <<>>
    ELSE (IF Arr[i].kind # "Object" THEN <<>>
          ELSE Let(JsonObjectToLinkedBox(Arr[i], EmptyLinkedBox), LAMBDA R :
                   IF R.bOk THEN <<R.OutBox>> ELSE <<>>))
         \o ReadBoxes(Arr, i + 1)

LinkedBoxes_FromJsonString(InJson) ==
    IF InJson.kind = "Array" THEN [bOk |-> TRUE, OutBoxes |-> ReadBoxes(InJson.items, 1)]
    ELSE IF InJson.kind = "Object"
    THEN Let(JsonObjectToLinkedBox(InJson, EmptyLinkedBox), LAMBDA R :
             IF R.bOk THEN [bOk |-> TRUE, OutBoxes |-> <<R.OutBox>>] ELSE [bOk |-> FALSE, OutBoxes |-> <<>>])
    ELSE [bOk |-> FALSE, OutBoxes |-> <<>>]

CallLinkedBox_FromJsonString ==
    /\ \E InJson \in CellDocuments :
          libCall' = [op |-> "LinkedBox_FromJsonString", in |-> [Json |-> InJson], out |-> LinkedBox_FromJsonString(InJson)]
    /\ UNCHANGED <<envVars, propVars, actorVars, ghostVars, linkVars, rowScan, tickCount>>

CallLinkedBoxes_FromJsonString ==
    /\ \E InJson \in ArrayDocuments \cup {a \in ArrayEntries : a.kind = "Object"} :
          libCall' = [op |-> "LinkedBoxes_FromJsonString", in |-> [Json |-> InJson], out |-> LinkedBoxes_FromJsonString(InJson)]
    /\ UNCHANGED <<envVars, propVars, actorVars, ghostVars, linkVars, rowScan, tickCount>>

NextJsonRead == CallLinkedBox_FromJsonString \/ CallLinkedBoxes_FromJsonString

SpecJsonRead == InitLibrary /\ [][NextJsonRead]_vars

\* Cell is a JSON object whose Points object has, under a corner's name, an
\* object that lacks X, Y or Z.
HasBrokenCorner(Cell) ==
    /\ Cell.kind = "Object"
    /\ "Points" \in DOMAIN Cell.fields
    /\ Cell.fields["Points"].kind = "Object"
    /\ \E Key \in DOMAIN Cell.fields["Points"].fields :
          /\ StringToEnum(Key).bOk
          /\ Cell.fields["Points"].fields[Key].kind = "Object"
          /\ {"X", "Y", "Z"} \ DOMAIN Cell.fields["Points"].fields[Key].fields # {}

\* The entries of an array that are cells without a broken corner.
SoundEntries(Arr) == {i \in 1..Len(Arr) : Arr[i].kind = "Object" /\ ~HasBrokenCorner(Arr[i])}

(***************************************************************************)
(* Shared corner points.  FS_LinkedSharedPoint holds a TSharedPtr<FVector>: *)
(* here the index of the pointed object in sharedPoints, 0 when null.      *)
(* The operations take the record L of the objects and the boxes and       *)
(* return it as the call leaves it.                                        *)
(***************************************************************************)
MaxPoints == 3

NullPtr == 0

BoxNames == {"BoxA", "BoxB"}

LinkCorners == {"Top_Forward_Right", "Bottom_Backward_Left"}

LinkValues == {<<100, 0, 0>>, <<0, 200, 0>>}

\* FS_LinkedSharedPoint::GetPoint
SharedPoint_GetPoint(Objects, Ptr) == IF Ptr # NullPtr THEN Objects[Ptr] ELSE ZeroVector

\* FS_LinkedSharedPoint::SetPoint on the point at Corner of box b: a valid
\* pointer has its object overwritten, a null one is replaced by a new object.
SharedPoint_SetPoint(L, b, Corner, Ptr, NewPoint) ==
    IF Ptr # NullPtr
    THEN [L EXCEPT !.Objects[Ptr] = NewPoint]
    ELSE [Objects |-> Append(L.Objects, NewPoint),
          Boxes |-> [L.Boxes EXCEPT ![b].Points = (Corner :> (Len(L.Objects) + 1)) @@ @]]

LinkedBox_SetBoxPoint(L, b, Corner, NewPoint) ==
    IF Corner \in DOMAIN L.Boxes[b].Points
    THEN SharedPoint_SetPoint(L, b, Corner, L.Boxes[b].Points[Corner], NewPoint)
    ELSE SharedPoint_SetPoint(L, b, Corner, NullPtr, NewPoint)

LinkedBox_LinkTwoBoxPoint(L, BoxA, BoxB, BoxA_Corner, BoxB_Corner) ==
    IF BoxA_Corner \in DOMAIN L.Boxes[BoxA].Points /\ BoxB_Corner \in DOMAIN L.Boxes[BoxB].Points
    THEN [L EXCEPT !.Boxes[BoxA].Points[BoxA_Corner] = L.Boxes[BoxB].Points[BoxB_Corner]]
    ELSE L

\* The position read through corner Corner of box b.
ReadCorner(Objects, Boxes, b, Corner) == SharedPoint_GetPoint(Objects, Boxes[b].Points[Corner])

CurLink == [Objects |-> sharedPoints, Boxes |-> linkedBoxes]

\* The corners a caller's boxes start with: absent from Points, present with
\* a point never set (a default FS_LinkedSharedPoint), or set by SetBoxPoint.
SlotOrder == <<<<"BoxA", "Top_Forward_Right">>, <<"BoxA", "Bottom_Backward_Left">>, <<"BoxB", "Bottom_Backward_Left">>>>

LinkSlots == {SlotOrder[i] : i \in 1..Len(SlotOrder)}

SlotRank(s) == CHOOSE i \in 1..Len(SlotOrder) : SlotOrder[i] = s

LinkLayouts == [LinkSlots -> {"Absent", "Unset", "Set"}]

\* The index of the object of slot s when the set slots are allocated in order.
LayoutPtr(Layout, s) == Cardinality({t \in LinkSlots : Layout[t] = "Set" /\ SlotRank(t) <= SlotRank(s)})

LayoutBoxes(Layout) ==
    [b \in BoxNames |->
        [Points |-> [c \in {c \in LinkCorners : <<b, c>> \in LinkSlots /\ Layout[<<b, c>>] # "Absent"} |->
                        IF Layout[<<b, c>>] = "Set" THEN LayoutPtr(Layout, <<b, c>>) ELSE NullPtr],
         VisibilityMask |-> 0]]

LayoutObjects(Layout) == [i \in 1..Cardinality({t \in LinkSlots : Layout[t] = "Set"}) |-> <<0, 200, 0>>]

InitLinked ==
    /\ InitEnv({Env({}, FALSE, FALSE, <<1, 1, 1>>, 0)}) /\ InitProps /\ InitActor
    /\ libCall = NoCall /\ rowScan = NoScan /\ tickCount = 0
    /\ \E Layout \in LinkLayouts :
          /\ sharedPoints = LayoutObjects(Layout)
          /\ linkedBoxes = LayoutBoxes(Layout)
    /\ linkGroup = [s \in LinkSlots |-> s]

CallLinkedBox_SetBoxPoint ==
    /\ \E s \in LinkSlots, NewPoint \in LinkValues :
          \E b \in {s[1]}, Corner \in {s[2]}, R \in {LinkedBox_SetBoxPoint(CurLink, s[1], s[2], NewPoint)} :
              /\ Len(R.Objects) <= MaxPoints
              /\ sharedPoints' = R.Objects
              /\ linkedBoxes' = R.Boxes
              /\ libCall' = [op |-> "LinkedBox_SetBoxPoint", in |-> [Box |-> b, Corner |-> Corner, NewPoint |-> NewPoint], out |-> <<>>]
    /\ UNCHANGED <<envVars, propVars, actorVars, ghostVars, linkGroup, rowScan, tickCount>>

CallLinkedBox_LinkTwoBoxPoint ==
    /\ \E s \in LinkSlots, t \in LinkSlots :
          \E BoxA \in {s[1]}, BoxA_Corner \in {s[2]}, BoxB \in {t[1]}, BoxB_Corner \in {t[2]},
             R \in {LinkedBox_LinkTwoBoxPoint(CurLink, s[1], t[1], s[2], t[2])} :
              /\ sharedPoints' = R.Objects
              /\ linkedBoxes' = R.Boxes
              /\ linkGroup' = IF BoxA_Corner \in DOMAIN linkedBoxes[BoxA].Points /\ BoxB_Corner \in DOMAIN linkedBoxes[BoxB].Points
                              THEN [linkGroup EXCEPT ![<<BoxA, BoxA_Corner>>] = linkGroup[<<BoxB, BoxB_Corner>>]]
                              ELSE linkGroup
              /\ libCall' = [op |-> "LinkedBox_LinkTwoBoxPoint",
                             in |-> [BoxA |-> BoxA, BoxB |-> BoxB, BoxA_Corner |-> BoxA_Corner, BoxB_Corner |-> BoxB_Corner], out |-> <<>>]
    /\ UNCHANGED <<envVars, propVars, actorVars, ghostVars, rowScan, tickCount>>

NextLinked == CallLinkedBox_SetBoxPoint \/ CallLinkedBox_LinkTwoBoxPoint

SpecLinked == InitLinked /\ [][NextLinked]_vars

\* The corners present in Points of a box.
PresentCorners(Boxes) == {s \in LinkSlots : s[2] \in DOMAIN Boxes[s[1]].Points}

\* Two present corners were linked and neither was linked elsewhere since.
Linked(s, t) == s # t /\ s \in PresentCorners(linkedBoxes) /\ t \in PresentCorners(linkedBoxes) /\ linkGroup[s] = linkGroup[t]

(***************************************************************************)
(* ScanRowX followed one loop iteration at a time.  The run is started on  *)
(* a grid of one row of cells along X; ScanRowX_Begin is the lambda up to  *)
(* its while loop, ScanRowX_Iteration one evaluation of the loop condition *)
(* and, when it holds, of the loop body.  Each probe is logged with the    *)
(* StartI and TargetI it was issued for, the trace's answer, the last      *)
(* index of the span it marks, and the indices whose flag it wrote.        *)
(***************************************************************************)
MaxRow == 4

RowCounts == {<<n, 1, 1>> : n \in 1..MaxRow}

RowInputs == {[VolumeBox |-> TwoPointBox, Counts |-> c] : c \in RowCounts}

\* Along the row: nothing; a wall at the middle of the volume; a block over
\* a stretch of the row; a block at the row's start; two walls; a block
\* beside the row that reaches a cell's center sphere but not the trace;
\* a wall just short of the center of the second of MaxRow cells.
RowScenes ==
    {{},
     {Block(<<3600, 0, 0>>, <<3600, 7200, 7200>>)},
     {Block(<<2000, 0, 0>>, <<3000, 7200, 7200>>)},
     {Block(<<0, 0, 0>>, <<1000, 7200, 7200>>)},
     {Block(<<3600, 0, 0>>, <<3600, 7200, 7200>>), Block(<<5000, 0, 0>>, <<5000, 7200, 7200>>)},
     {Block(<<2600, 0, 0>>, <<2800, 3300, 7200>>)},
     {Block(<<2699, 0, 0>>, <<2699, 7200, 7200>>)}}

RowDistances == {0, 1000, 2000, 4000, 20000}

RowEnvs == {Env(sc, bUse, FALSE, <<1, 1, 1>>, dist) : sc \in RowScenes, bUse \in BOOLEAN, dist \in RowDistances}

InitRow == InitEnv(RowEnvs) /\ InitProps /\ InitActor /\ InitLib

StartAnalysisRow == lastOp = "Init" /\ StartAnalysisWith(RowInputs)

\* RowCenter(Xi) of ScanRowX(YIndex, ZIndex)
RowCenter(Boxes, Xi, YIndex, ZIndex) == LinkedBox_GetCenter(Boxes[Index(Xi, YIndex, ZIndex) + 1])

\* The indices in StartI..EndI whose cell has a free center.
FreeInSpan(Boxes, StartI, EndI, YIndex, ZIndex) == {i \in StartI..EndI : IsCenterFree(RowCenter(Boxes, i, YIndex, ZIndex))}

\* Variant of MarkSpan: the first cell whose center is not free ends the span.
MarkSpan_Breaking(Boxes, StartI, EndI, YIndex, ZIndex) ==
    {i \in StartI..EndI : \A k \in StartI..i : IsCenterFree(RowCenter(Boxes, k, YIndex, ZIndex))}

\* "for (i = StartI; i <= EndI; ++i) if (IsCenterFree(RowCenter(i))) ...VisibilityMask = 1":
\* the indices whose flag is written.
MarkSpan(Boxes, StartI, EndI, YIndex, ZIndex) == FreeInSpan(Boxes, StartI, EndI, YIndex, ZIndex)

WriteMarks(Boxes, Marked, YIndex, ZIndex) ==
    [n \in 1..Len(Boxes) |-> MarkBox(Boxes[n], \E i \in Marked : n = Index(i, YIndex, ZIndex) + 1)]

\* Variant of ScanRowX_Begin: the cell of a row of one cell is marked without the center test.
ScanRowX_Begin_NoCenterTest(S, YIndex, ZIndex) ==
    IF S.GridCountX <= 0
    THEN [S |-> S, W |-> [Stage |-> "Done", YIndex |-> YIndex, ZIndex |-> ZIndex, StartI |-> 0, Probes |-> <<>>]]
    ELSE IF S.GridCountX = 1
    THEN [S |-> [S EXCEPT !.PendingBoxes = WriteMarks(S.PendingBoxes, {0}, YIndex, ZIndex)],
          W |-> [Stage |-> "Done", YIndex |-> YIndex, ZIndex |-> ZIndex, StartI |-> 0, Probes |-> <<>>]]
    ELSE [S |-> S, W |-> [Stage |-> "Walking", YIndex |-> YIndex, ZIndex |-> ZIndex, StartI |-> 0, Probes |-> <<>>]]

ScanRowX_Begin(S, YIndex, ZIndex) ==
    IF S.GridCountX <= 0
    THEN [S |-> S, W |-> [Stage |-> "Done", YIndex |-> YIndex, ZIndex |-> ZIndex, StartI |-> 0, Probes |-> <<>>]]
    ELSE IF S.GridCountX = 1
    THEN [S |-> [S EXCEPT !.PendingBoxes = WriteMarks(S.PendingBoxes, MarkSpan(S.PendingBoxes, 0, 0, YIndex, ZIndex), YIndex, ZIndex)],
          W |-> [Stage |-> "Done", YIndex |-> YIndex, ZIndex |-> ZIndex, StartI |-> 0, Probes |-> <<>>]]
    ELSE [S |-> S, W |-> [Stage |-> "Walking", YIndex |-> YIndex, ZIndex |-> ZIndex, StartI |-> 0, Probes |-> <<>>]]

\* Variant of NextStart: the loop variable is left on the cell that was hit.
NextStart_OnHitCell(bHit, LastI, Count) == IF bHit THEN LastI ELSE LastI + 1

\* Variant of NextStart: after a hit the loop resumes beyond the cell behind the hit cell.
NextStart_BeyondBlocker(bHit, LastI, Count) == IF bHit THEN Min2(LastI + 2, Count) ELSE LastI + 1

\* "StartI = TargetI + 1" and "StartI = FMath::Min(HitIndex + 1, Count)"
NextStart(bHit, LastI, Count) == IF bHit THEN Min2(LastI + 1, Count) ELSE LastI + 1

ScanRowX_Iteration(S, W) ==
    IF ~(W.StartI < S.GridCountX)
    THEN [S |-> S, W |-> [W EXCEPT !.Stage = "Done"]]
    ELSE
    Let(Distance(RowCenter(S.PendingBoxes, 0, W.YIndex, W.ZIndex), RowCenter(S.PendingBoxes, 1, W.YIndex, W.ZIndex)), LAMBDA StepLen :
    Let(TargetIndex(W.StartI, S.GridCountX, StepLen), LAMBDA TargetI :
    Let(RowCenter(S.PendingBoxes, W.StartI, W.YIndex, W.ZIndex), LAMBDA StartC :
    Let(RowCenter(S.PendingBoxes, TargetI, W.YIndex, W.ZIndex), LAMBDA EndC :
    Let(LineTrace(StartC, EndC), LAMBDA Hit :
    Let(Clamp(Hit.Dist, 0, Distance(StartC, EndC)), LAMBDA HitDist :
    Let(IF Hit.bHit THEN HitIndexOf(W.StartI, TargetI, HitDist, StepLen) ELSE TargetI, LAMBDA LastI :
    Let(MarkSpan(S.PendingBoxes, W.StartI, LastI, W.YIndex, W.ZIndex), LAMBDA Marked :
        [S |-> [S EXCEPT !.PendingBoxes = WriteMarks(S.PendingBoxes, Marked, W.YIndex, W.ZIndex)],
         W |-> [W EXCEPT !.StartI = NextStart(Hit.bHit, LastI, S.GridCountX),
                         !.Probes = Append(@, [StartI |-> W.StartI, TargetI |-> TargetI, StepLen |-> StepLen,
                                               bHit |-> Hit.bHit, HitDist |-> HitDist, LastI |-> LastI, Marked |-> Marked])]]))))))))

\* The main loop of the step calls ScanRowX for the first row of phase 0.
BeginScanRowX ==
    /\ ~crashed /\ World /\ bIsRunning /\ ~bIsSubSampling
    /\ CurrentPhase = 0 /\ CurrentPhaseRowIndex = 0 /\ PhaseTotal(0) > 0
    /\ rowScan.Stage = "None"
    /\ \E R \in {ScanRowX_Begin(Cur, PhaseRow(0, CurrentPhaseRowIndex)[1], PhaseRow(0, CurrentPhaseRowIndex)[2])} :
          Commit(R.S) /\ rowScan' = R.W
    /\ lastOp' = "ScanRowX"
    /\ UNCHANGED <<envVars, propVars, libCall, linkVars, tickCount>>

ScanRowXStep ==
    /\ rowScan.Stage = "Walking"
    /\ \E R \in {ScanRowX_Iteration(Cur, rowScan)} :
          Commit(R.S) /\ rowScan' = R.W
    /\ lastOp' = "ScanRowX"
    /\ UNCHANGED <<envVars, propVars, libCall, linkVars, tickCount>>

\* A run whose first row scan is not followed is stepped by Tick.
TickRow == rowScan.Stage = "None" /\ Tick

NextRow == StartAnalysisRow \/ BeginScanRowX \/ ScanRowXStep \/ TickRow

SpecRow == InitRow /\ [][NextRow]_vars

\* The loop of ScanRowX gets to run.
SpecRowLive == SpecRow /\ WF_vars(ScanRowXStep)

\* The scan followed in rowScan finds what the step's ScanRowX leaves in the grid.
RowScanAgrees ==
    rowScan.Stage = "Done"
        => PendingBoxes = ScanRowX([n \in 1..Len(PendingBoxes) |-> [PendingBoxes[n] EXCEPT !.VisibilityMask = 0]], rowScan.YIndex, rowScan.ZIndex).Boxes

(***************************************************************************)
(* A row scan called again.  The lambdas ScanRowX, ScanRowY and            *)
(* ScanColumnZ of the step are applied to the grid of a run in progress,   *)
(* for any row or column of the grid, outside the schedule of the main     *)
(* pass; libCall records the scan, whether it repeats the scan of the step *)
(* before, and the flags it left.                                          *)
(***************************************************************************)
RescanEnvs == {e \in AllEnvs : ~e.bEnableSubSampling /\ e.Sub = <<1, 1, 1>> /\ e.MaxTraceDistance \in {0, 1000}}

InitRescan == InitEnv(RescanEnvs) /\ InitProps /\ InitActor /\ InitLib

RescanInputs == {[VolumeBox |-> TwoPointBox, Counts |-> c] : c \in {<<MaxCount, 1, 1>>, <<1, MaxCount, 1>>, <<1, 1, MaxCount>>, <<2, 2, 1>>}}

StartAnalysisRescan == lastOp = "Init" /\ StartAnalysisWith(RescanInputs)

\* The rows and columns of the grid: the scan and its two indices.
GridRows ==
    {<<"ScanRowX", y, z>> : y \in 0..(GridCountY - 1), z \in 0..(GridCountZ - 1)}
    \cup {<<"ScanRowY", x, z>> : x \in 0..(GridCountX - 1), z \in 0..(GridCountZ - 1)}
    \cup {<<"ScanColumnZ", x, y>> : x \in 0..(GridCountX - 1), y \in 0..(GridCountY - 1)}

ScanNamed(Boxes, Row) ==
    IF Row[1] = "ScanRowX" THEN ScanRowX(Boxes, Row[2], Row[3])
    ELSE IF Row[1] = "ScanRowY" THEN ScanRowY(Boxes, Row[2], Row[3])
    ELSE ScanColumnZ(Boxes, Row[2], Row[3])

CallScanRow ==
    /\ ~crashed /\ World /\ bIsRunning /\ ~bIsSubSampling
    /\ \E Row \in GridRows :
          \E R \in {ScanNamed(PendingBoxes, Row)} :
              /\ ~R.Fault
              /\ Commit([Cur EXCEPT !.PendingBoxes = R.Boxes])
              /\ libCall' = [op |-> "ScanRow",
                              in |-> [Row |-> Row, bAgain |-> libCall.op = "ScanRow" /\ lastOp = "ScanRow" /\ libCall.in.Row = Row],
                              out |-> [n \in 1..Len(R.Boxes) |-> R.Boxes[n].VisibilityMask]]
    /\ lastOp' = "ScanRow"
    /\ UNCHANGED <<envVars, propVars, linkVars, rowScan, tickCount>>

NextRescan == StartAnalysisRescan \/ Tick \/ CallScanRow

SpecRescan == InitRescan /\ [][NextRescan]_vars

(***************************************************************************)
(* Runs sliced by any budget: one start on a fresh actor in a static       *)
(* scene, then ticks; while the run is in progress RowsPerTick is set from *)
(* code to 1, to MaxBudget or to a budget that covers every row scan and   *)
(* every refinement of the run in one step.                                *)
(***************************************************************************)
SliceEnvs ==
    {e \in AllEnvs :
        /\ e.MaxTraceDistance \in {0, 1000}
        /\ e.bUseCenterOverlapTest
        /\ e.Sub \in {<<1, 1, 1>>, <<MaxSubCount, 1, 1>>}
        /\ e.scene \in {{Block(<<0, 0, 0>>, <<7200, 7200, 7200>>)},
                        {Block(<<0, 0, 0>>, <<1000, 7200, 7200>>)},
                        {Block(<<0, 0, 0>>, <<1000, 7200, 7200>>), Block(<<4600, 0, 0>>, <<7200, 7200, 7200>>)}}}

InitSlice == InitEnv(SliceEnvs) /\ InitProps /\ InitActor /\ InitLib

SliceInputs == {[VolumeBox |-> TwoPointBox, Counts |-> c] : c \in {<<MaxCount, 1, 1>>, <<2, 2, 1>>}}

StartAnalysisSlice == lastOp = "Init" /\ StartAnalysisWith(SliceInputs)

\* A budget no smaller than the row scans and refinements of a whole run.
WholeRunBudget(S) == Max2(S.GridCountY * S.GridCountZ, 0) + Max2(S.GridCountX * S.GridCountZ, 0) + Max2(S.GridCountX * S.GridCountY, 0) + Len(S.PendingBoxes) + 1

SetSliceBudget ==
    /\ ~crashed /\ bIsRunning
    /\ \E b \in {1, MaxBudget, WholeRunBudget(Cur)} : b # RowsPerTick /\ RowsPerTick' = b
    /\ UNCHANGED <<envVars, VolumeBox, SampleCountX, SampleCountY, SampleCountZ, stepPropVars, actorVars, ghostVars, libVars>>

NextSlice == StartAnalysisSlice \/ Tick \/ SetSliceBudget

SpecSlice == InitSlice /\ [][NextSlice]_vars

\* The run of the configured volume and counts done by one step: StartAnalysis,
\* then one ProcessRowsStep with a budget that covers the whole run.
RunInOneStep ==
    Let(StartAnalysisBody(Cur, VolumeBox, SampleCountX, SampleCountY, SampleCountZ), LAMBDA S0 :
        ProcessRowsStep(S0, WholeRunBudget(S0)))

(***************************************************************************)
(* Runs under a budget set before the start and left alone: RowsPerTick is *)
(* configured on the fresh actor, the run is started once, and the ticks   *)
(* that find the controller running are counted.                           *)
(***************************************************************************)
PaceEnvs ==
    {e \in AllEnvs :
        /\ e.MaxTraceDistance = 0
        /\ e.Sub = <<1, 1, 1>>
        /\ \/ e.bUseCenterOverlapTest /\ e.scene \in {{}, {Block(<<0, 0, 0>>, <<1000, 7200, 7200>>)}}
           \/ ~e.bUseCenterOverlapTest /\ e.bEnableSubSampling /\ e.scene = {Block(<<0, 0, 0>>, <<7200, 7200, 7200>>)}}

InitPace == InitEnv(PaceEnvs) /\ InitProps /\ InitActor /\ InitLib

\* Every budget from 1 to one more than the rows and columns of the largest grid.
PaceBudgets == 1..(3 * MaxCount * MaxCount + 1)

SetPaceBudget ==
    /\ lastOp = "Init" /\ RowsPerTick = 1
    /\ \E b \in PaceBudgets : b # RowsPerTick /\ RowsPerTick' = b
    /\ UNCHANGED <<envVars, VolumeBox, SampleCountX, SampleCountY, SampleCountZ, stepPropVars, actorVars, ghostVars, libVars>>

PaceInputs == {[VolumeBox |-> TwoPointBox, Counts |-> c] : c \in ValidTriples}

StartAnalysisPace == lastOp = "Init" /\ StartAnalysisWith(PaceInputs)

TickCounted ==
    /\ ~crashed
    /\ Commit(TickBody(Cur))
    /\ lastOp' = "Tick"
    /\ tickCount' = IF bIsRunning THEN tickCount + 1 ELSE tickCount
    /\ UNCHANGED <<envVars, propVars, libCall, linkVars, rowScan>>

NextPace == SetPaceBudget \/ StartAnalysisPace \/ TickCounted

SpecPace == InitPace /\ [][NextPace]_vars

\* R: the rows and columns of the three phases of the grid.
MainPassRows == PhaseTotal(0) + PhaseTotal(1) + PhaseTotal(2)

(***************************************************************************)
(* Getters.                                                                *)
(***************************************************************************)
GetAnalysisResults == AnalysisResults

GetVisiblePointCount == VisibleCount

GetHiddenPointCount == HiddenCount

\* A float quotient Num / Den, kept exact; Den = 0 is a division by zero.
Quotient(Num, Den) == [Num |-> Num, Den |-> Den]

\* Variant of GetVisibilityPercentage: the total is not tested.
GetVisibilityPercentage_Unguarded == Quotient(VisibleCount * 100, VisibleCount + HiddenCount)

GetVisibilityPercentage ==
    Let(VisibleCount + HiddenCount, LAMBDA Total :
        IF Total > 0 THEN Quotient(VisibleCount * 100, Total) ELSE Quotient(0, 1))

\* The quotient q is a number, and it is 0.
IsZero(q) == q.Den # 0 /\ q.Num = 0

(***************************************************************************)
(* Predicates on the inputs of the last StartAnalysis call (the caller     *)
(* leaves them in VolumeBox and SampleCountX/Y/Z).                         *)
(***************************************************************************)
ValidCornerCount == Cardinality({c \in DOMAIN VolumeBox.Points : IsSharedPointValid(VolumeBox.Points[c])})

CountsInRange == SampleCountX >= 1 /\ SampleCountY >= 1 /\ SampleCountZ >= 1

AllHidden(Boxes) == \A n \in 1..Len(Boxes) : Boxes[n].VisibilityMask = 0

(***************************************************************************)
(* C1.  After a completed run of a grid with counts >= 1, the visible and  *)
(* the hidden count add up to the number of cells of that run's grid       *)
(* (GridCountX * GridCountY * GridCountZ), on both completion paths.       *)
(***************************************************************************)
C1_CountsAddUp ==
    (completions >= 1 /\ GridCountX >= 1 /\ GridCountY >= 1 /\ GridCountZ >= 1)
        => GetVisiblePointCount + GetHiddenPointCount = GridCountX * GridCountY * GridCountZ

\* A run that went through sub-sampling and completed with visible and hidden cells.
C1_Witness ==
    /\ completions = 1
    /\ HiddenBoxIndices # <<>>
    /\ GetVisiblePointCount > 0
    /\ GetHiddenPointCount > 0
    /\ GridCountX * GridCountY * GridCountZ > 1

(***************************************************************************)
(* C2.  Visibility is monotonic within a run: a step other than            *)
(* StartAnalysis and ClearResults (a tick in the main pass, in             *)
(* sub-sampling or finalizing, StopAnalysis, a change of the scene) keeps  *)
(* the grid's cells and leaves every visible cell visible.                 *)
(***************************************************************************)
C2_VisibilityMonotonic ==
    [][lastOp' \notin {"StartAnalysis", "ClearResults"}
         => /\ Len(PendingBoxes') = Len(PendingBoxes)
            /\ \A n \in 1..Len(PendingBoxes) :
                   PendingBoxes[n].VisibilityMask = 1 => PendingBoxes'[n].VisibilityMask = 1]_vars

\* A cell found visible earlier in the run is still visible after a later
\* tick, although its center is now blocked.
C2_Witness ==
    /\ lastOp = "Tick"
    /\ completions = 0
    /\ CurrentPhase >= 1
    /\ \E n \in 1..Len(PendingBoxes) :
          /\ PendingBoxes[n].VisibilityMask = 1
          /\ ~IsCenterFree(LinkedBox_GetCenter(PendingBoxes[n]))

(***************************************************************************)
(* C3.  OnAnalysisComplete fires at most once per started run; it fires    *)
(* only in a tick that takes a running controller to idle; and a tick that *)
(* ends a run with the world present fires it.                             *)
(***************************************************************************)
C3_CompletionOnce ==
    [][/\ completions' <= 1
       /\ (completions' > completions => lastOp' = "Tick" /\ bIsRunning /\ ~bIsRunning' /\ World)
       /\ (lastOp' = "Tick" /\ bIsRunning /\ ~bIsRunning' /\ World /\ ~crashed' => completions' = completions + 1)]_vars

\* The main pass handed over to sub-sampling and the run completed.
C3_Witness ==
    /\ completions = 1
    /\ lastOp = "Tick"
    /\ HiddenBoxIndices # <<>>
    /\ CurrentHiddenIndex = Len(HiddenBoxIndices)

(***************************************************************************)
(* C4.  Under fair ticking with the world present and no StartAnalysis,    *)
(* StopAnalysis or ClearResults after the start, a run on a grid with      *)
(* counts >= 1 eventually is no longer running and has fired the           *)
(* completion event.                                                       *)
(***************************************************************************)
C4_RunCompletes ==
    (bIsRunning /\ GridCountX >= 1 /\ GridCountY >= 1 /\ GridCountZ >= 1) ~> (~bIsRunning /\ completions = 1)

\* A run of several cells that needed sub-sampling ticks has completed.
C4_Witness ==
    /\ ~bIsRunning
    /\ completions = 1
    /\ Len(HiddenBoxIndices) > 1
    /\ Len(PendingBoxes) > 1
    /\ RowsPerTick = 1

(***************************************************************************)
(* C5.  StopAnalysis leaves the controller idle (not running, not          *)
(* sub-sampling) and fires nothing; a tick of an idle controller fires     *)
(* nothing and leaves grid, scan indices, results and counts unchanged.    *)
(***************************************************************************)
C5_StopIsIdle ==
    [][/\ (lastOp' = "StopAnalysis" => ~bIsRunning' /\ ~bIsSubSampling' /\ completions' = completions)
       /\ (lastOp' = "Tick" /\ ~bIsRunning => UNCHANGED <<actorVars, completions, eventPayload>>)]_vars

\* A run stopped in the middle of the main pass, then ticked.
C5_Witness ==
    /\ lastOp = "Tick"
    /\ World
    /\ ~bIsRunning
    /\ ~bIsSubSampling
    /\ completions = 0
    /\ PendingBoxes # <<>>
    /\ CurrentPhase = 1
    /\ CurrentPhaseRowIndex > 0

(***************************************************************************)
(* C6.  After a StartAnalysis with the world present, a valid box and      *)
(* counts >= 1, whatever the state before: X*Y*Z cells, all hidden, scan   *)
(* position (0, 0), not sub-sampling, empty worklist at index 0, empty     *)
(* results, zero counts, running.                                          *)
(***************************************************************************)
C6_StartResets ==
    (lastOp = "StartAnalysis" /\ World /\ LinkedBox_GetAABB(VolumeBox).IsValid /\ CountsInRange)
        => /\ Len(PendingBoxes) = SampleCountX * SampleCountY * SampleCountZ
           /\ AllHidden(PendingBoxes)
           /\ CurrentPhase = 0
           /\ CurrentPhaseRowIndex = 0
           /\ ~bIsSubSampling
           /\ HiddenBoxIndices = <<>>
           /\ CurrentHiddenIndex = 0
           /\ GetAnalysisResults = <<>>
           /\ GetVisiblePointCount = 0
           /\ GetHiddenPointCount = 0
           /\ bIsRunning

C6_Witness ==
    /\ lastOp = "StartAnalysis"
    /\ World
    /\ LinkedBox_GetAABB(VolumeBox).IsValid
    /\ CountsInRange
    /\ Len(PendingBoxes) > 1
    /\ bIsRunning

(***************************************************************************)
(* C7.  After a StartAnalysis whose volume box gives no valid AABB the     *)
(* controller is not running.                                              *)
(***************************************************************************)
C7_InvalidInputLeavesIdle ==
    (lastOp = "StartAnalysis" /\ ~LinkedBox_GetAABB(VolumeBox).IsValid) => ~bIsRunning

(***************************************************************************)
(* C8.  After a StartAnalysis with a zero or negative sample count the     *)
(* controller is not running, and no completion event follows from it.     *)
(***************************************************************************)
C8_BadCountsDoNotStart ==
    /\ (lastOp = "StartAnalysis" /\ ~CountsInRange) => ~bIsRunning
    /\ (GridCountX <= 0 \/ GridCountY <= 0 \/ GridCountZ <= 0) => completions = 0

(***************************************************************************)
(* C9.  After a StartAnalysis whose volume box gives no valid AABB the     *)
(* results are empty and both counts are 0.                                *)
(***************************************************************************)
C9_FailedStartEmptyResults ==
    (lastOp = "StartAnalysis" /\ ~LinkedBox_GetAABB(VolumeBox).IsValid)
        => GetAnalysisResults = <<>> /\ GetVisiblePointCount = 0 /\ GetHiddenPointCount = 0

(***************************************************************************)
(* C10.  After a StartAnalysis with fewer than 2 valid corner points in    *)
(* the volume box the controller is not running.                           *)
(***************************************************************************)
C10_NeedsTwoPoints ==
    (lastOp = "StartAnalysis" /\ ValidCornerCount < 2) => ~bIsRunning

(***************************************************************************)
(* C11.  A step that finds no world during an active run (main pass or     *)
(* sub-sampling) does no scan work, leaves the controller idle (not        *)
(* running, not sub-sampling) and fires no completion event.               *)
(***************************************************************************)
C11_NoWorldAbortsToIdle ==
    [][(lastOp' = "Tick" /\ ~World /\ bIsRunning)
          => /\ PendingBoxes' = PendingBoxes
             /\ UNCHANGED <<CurrentPhase, CurrentPhaseRowIndex, CurrentHiddenIndex>>
             /\ completions' = completions
             /\ ~bIsRunning'
             /\ ~bIsSubSampling']_vars

(***************************************************************************)
(* C12.  ClearResults, called in any state, leaves the controller idle     *)
(* (not running, not sub-sampling) with an empty grid, empty results, both *)
(* counts 0, an empty hidden worklist and the scan indices reset; it fires *)
(* no completion event, and GetVisibilityPercentage() is 0 afterwards.     *)
(***************************************************************************)
C12_ClearResultsResets ==
    [][lastOp' = "ClearResults"
          => /\ ~bIsRunning'
             /\ ~bIsSubSampling'
             /\ PendingBoxes' = <<>>
             /\ GetAnalysisResults' = <<>>
             /\ GetVisiblePointCount' = 0
             /\ GetHiddenPointCount' = 0
             /\ HiddenBoxIndices' = <<>>
             /\ CurrentHiddenIndex' = 0
             /\ CurrentCellIndex' = 0
             /\ CurrentPhase' = 0
             /\ CurrentPhaseRowIndex' = 0
             /\ completions' = completions
             /\ IsZero(GetVisibilityPercentage')]_vars

\* ClearResults after a run that completed with results.
C12_Witness ==
    /\ lastOp = "ClearResults"
    /\ completions = 1
    /\ eventPayload # <<>>
    /\ GetAnalysisResults = <<>>
    /\ ~bIsRunning

(***************************************************************************)
(* C13.  In one step(budget) call the row scans plus the hidden cells      *)
(* refined never exceed the budget: a call in which the main pass ends     *)
(* gives sub-sampling only what the row scans left, nothing when nothing   *)
(* is left; a call with budget <= 0 does no scan work at all.              *)
(***************************************************************************)
C13_BudgetBoundsWork ==
    [][lastOp' = "Tick"
          => /\ RowsScanned >= 0
             /\ CellsRefined >= 0
             /\ RowsScanned + CellsRefined <= Max2(RowsPerTick, 0)
             /\ (CurrentPhase < 3 /\ CurrentPhase' = 3 => CellsRefined <= RowsPerTick - RowsScanned)
             /\ (RowsPerTick <= 0 => PendingBoxes' = PendingBoxes /\ RowsScanned = 0 /\ CellsRefined = 0)]_vars

\* The main pass ended and, with the budget not used up, one of two hidden
\* cells has been refined.
C13_Witness ==
    /\ lastOp = "Tick"
    /\ RowsPerTick = MaxBudget
    /\ CurrentPhase = 3
    /\ bIsSubSampling
    /\ Len(HiddenBoxIndices) = 2
    /\ CurrentHiddenIndex = 1

(***************************************************************************)
(* C14.  In the step that completes a run, through either finalization     *)
(* path: the results equal the grid (same length, order and flags),        *)
(* VisibleCount is the number of cells with a non-zero flag, HiddenCount   *)
(* the number with flag 0, and the event carries exactly those results.    *)
(***************************************************************************)
C14_SnapshotAtCompletion ==
    [][completions' > completions
          => /\ GetAnalysisResults' = PendingBoxes'
             /\ GetVisiblePointCount' = Cardinality({n \in 1..Len(PendingBoxes') : PendingBoxes'[n].VisibilityMask # 0})
             /\ GetHiddenPointCount' = Cardinality({n \in 1..Len(PendingBoxes') : PendingBoxes'[n].VisibilityMask = 0})
             /\ eventPayload' = GetAnalysisResults']_vars

\* A run completed through sub-sampling, with visible and hidden cells.
C14_Witness ==
    /\ lastOp = "Tick"
    /\ completions = 1
    /\ HiddenBoxIndices # <<>>
    /\ GetVisiblePointCount > 0
    /\ GetHiddenPointCount > 0
    /\ eventPayload = PendingBoxes

(***************************************************************************)
(* C15.  In a scene where no probe is obstructed, with the center test     *)
(* off, a run on a grid with counts >= 1 ends its main pass with every     *)
(* cell visible, whatever the budget and MaxTraceDistance; it never enters *)
(* sub-sampling and completes with a hidden count of 0.                    *)
(***************************************************************************)
C15_OpenSceneAllVisible ==
    (scene = {} /\ ~bUseCenterOverlapTest /\ GridCountX >= 1 /\ GridCountY >= 1 /\ GridCountZ >= 1)
        => /\ ~crashed
           /\ ~bIsSubSampling
           /\ HiddenBoxIndices = <<>>
           /\ MainPassDone => \A n \in 1..Len(PendingBoxes) : PendingBoxes[n].VisibilityMask = 1
           /\ completions = 1 => GetHiddenPointCount = 0 /\ GetVisiblePointCount = GridCountX * GridCountY * GridCountZ

\* A completed run on a grid with several cells along two axes, traced
\* with a distance shorter than a cell, sub-sampling enabled.
C15_Witness ==
    /\ scene = {}
    /\ ~bUseCenterOverlapTest
    /\ bEnableSubSampling
    /\ MaxTraceDistance = 1000
    /\ GridCountX = 1
    /\ GridCountY = MaxCount
    /\ GridCountZ = MaxCount
    /\ MainPassDone
    /\ completions = 1
    /\ GetVisiblePointCount = MaxCount * MaxCount

(***************************************************************************)
(* C16.  A cell that was hidden after the main pass and has been refined   *)
(* is visible if its sub-grid has a sub-cell whose center is clear (the    *)
(* sub-cell that starts a probe needs no clear line beyond itself), and    *)
(* it stays hidden if the center of every sub-cell is blocked.             *)
(***************************************************************************)
C16_PromotionBySubCell ==
    (SubSampleCountX >= 1 /\ SubSampleCountY >= 1 /\ SubSampleCountZ >= 1 /\ ~crashed)
        => \A n \in RefinedCells :
              /\ (\E C \in SubCellCenters(PendingBoxes[n]) : IsCenterFree(C)) => PendingBoxes[n].VisibilityMask = 1
              /\ (\A C \in SubCellCenters(PendingBoxes[n]) : ~IsCenterFree(C)) => PendingBoxes[n].VisibilityMask = 0

\* A completed run in which one refined cell was promoted, its sub-grid
\* holding a blocked and a clear sub-cell, and another stayed hidden.
C16_Witness ==
    /\ completions = 1
    /\ Cardinality(RefinedCells) = 2
    /\ \E n \in RefinedCells :
          /\ PendingBoxes[n].VisibilityMask = 1
          /\ \E C \in SubCellCenters(PendingBoxes[n]) : ~IsCenterFree(C)
    /\ \E n \in RefinedCells : PendingBoxes[n].VisibilityMask = 0

(***************************************************************************)
(* C17.  GetVisibilityPercentage() never divides by zero: it is 0 whenever *)
(* VisibleCount + HiddenCount = 0 (before any run, during a run, after a   *)
(* StopAnalysis of an unfinished run, after ClearResults), and otherwise   *)
(* it is 100 * VisibleCount / (VisibleCount + HiddenCount), within 0..100. *)
(***************************************************************************)
C17_PercentageDefined ==
    LET P == GetVisibilityPercentage
        Total == GetVisiblePointCount + GetHiddenPointCount
    IN /\ P.Den # 0
       /\ Total = 0 => IsZero(P)
       /\ Total > 0 => /\ P.Num * Total = 100 * GetVisiblePointCount * P.Den
                       /\ 0 <= P.Num
                       /\ P.Num <= 100 * P.Den

\* An unfinished run, stopped after it had marked a cell: the counts are
\* still 0 and the percentage is 0.
C17_Witness ==
    /\ lastOp = "StopAnalysis"
    /\ completions = 0
    /\ \E n \in 1..Len(PendingBoxes) : PendingBoxes[n].VisibilityMask = 1
    /\ GetVisiblePointCount + GetHiddenPointCount = 0
    /\ IsZero(GetVisibilityPercentage)

(***************************************************************************)
(* C18.  GenerateVoxelGridBoxes_ByCounts returns an empty array when the   *)
(* box is invalid or a count is <= 0; otherwise it returns X*Y*Z cells,    *)
(* the cell of grid position (xi, yi, zi) at index                         *)
(* zi*CountY*CountX + yi*CountX + xi, each with all 8 corners and flag 0.  *)
(***************************************************************************)
C18_GridLayout ==
    Generated
        => IF ~GridArgsValid
           THEN libCall.out = <<>>
           ELSE /\ Len(libCall.out) = libCall.in.Counts[1] * libCall.in.Counts[2] * libCall.in.Counts[3]
                /\ \A p \in GridPositions :
                      LET Cell == CellAt(p[1], p[2], p[3])
                      IN /\ DOMAIN Cell.Points = EE_Box_8Point
                         /\ \A c \in EE_Box_8Point : IsSharedPointValid(Cell.Points[c])
                         /\ Cell.VisibilityMask = 0
                         /\ LinkedBox_GetAABB(Cell).Min = [k \in 1..3 |-> libCall.in.Box.Min[k] + p[k] * StepOf(k)]

\* A grid with more than one cell along every axis, in a box that is not a cube.
C18_Witness ==
    /\ Generated
    /\ libCall.in.Box = FBox(<<-600, 1200, 0>>, <<600, 2400, 7200>>)
    /\ libCall.in.Counts = <<MaxCount, MaxCount, MaxCount>>
    /\ Len(libCall.out) = MaxCount * MaxCount * MaxCount

(***************************************************************************)
(* C19.  Along each axis the step is extent / count: cell i spans          *)
(* min + i*step to min + (i+1)*step, neighbouring cells share a boundary   *)
(* and the last cell ends at the box's max.  Box (0,0,0)-(2,2,2) with      *)
(* counts (2,1,1) gives two cells, x in 0..1 and 1..2, over the whole y    *)
(* and z extent.                                                           *)
(***************************************************************************)
C19_CellSpans ==
    (Generated /\ GridArgsValid)
        => /\ \A p \in GridPositions : \A k \in 1..3 :
                 LET A == LinkedBox_GetAABB(CellAt(p[1], p[2], p[3]))
                 IN /\ StepOf(k) * libCall.in.Counts[k] = libCall.in.Box.Max[k] - libCall.in.Box.Min[k]
                    /\ A.Min[k] = libCall.in.Box.Min[k] + p[k] * StepOf(k)
                    /\ A.Max[k] = libCall.in.Box.Min[k] + (p[k] + 1) * StepOf(k)
                    /\ p[k] = libCall.in.Counts[k] - 1 => A.Max[k] = libCall.in.Box.Max[k]
                    /\ p[k] < libCall.in.Counts[k] - 1
                          => A.Max[k] = LinkedBox_GetAABB(CellAt(p[1] + (IF k = 1 THEN 1 ELSE 0), p[2] + (IF k = 2 THEN 1 ELSE 0), p[3] + (IF k = 3 THEN 1 ELSE 0))).Min[k]
           /\ (libCall.in = [Box |-> FBox(<<0, 0, 0>>, <<2, 2, 2>>), Counts |-> <<2, 1, 1>>])
                 => /\ Len(libCall.out) = 2
                    /\ LinkedBox_GetAABB(libCall.out[1]) = FBox(<<0, 0, 0>>, <<1, 2, 2>>)
                    /\ LinkedBox_GetAABB(libCall.out[2]) = FBox(<<1, 0, 0>>, <<2, 2, 2>>)

\* The call of the example.
C19_Witness ==
    /\ Generated
    /\ libCall.in = [Box |-> FBox(<<0, 0, 0>>, <<2, 2, 2>>), Counts |-> <<2, 1, 1>>]
    /\ Len(libCall.out) = 2

C21_BrokenCornerFailsCell ==
    /\ (libCall.op = "LinkedBox_FromJsonString" /\ HasBrokenCorner(libCall.in.Json)) => ~libCall.out.bOk
    /\ (libCall.op = "LinkedBox_FromJsonString" /\ ~HasBrokenCorner(libCall.in.Json))
          => libCall.out.bOk /\ DOMAIN libCall.out.OutBox.Points \subseteq EE_Box_8Point
    /\ (libCall.op = "LinkedBoxes_FromJsonString" /\ libCall.in.Json.kind = "Array")
          => Len(libCall.out.OutBoxes) = Cardinality(SoundEntries(libCall.in.Json.items))

(***************************************************************************)
(* C22.  After LinkTwoBoxPoint with both corners present in Points, the    *)
(* two corners read the same point after every later SetBoxPoint on either *)
(* of them, and a SetBoxPoint leaves the point read through every corner   *)
(* not linked to the one it moves unchanged.                               *)
(***************************************************************************)
C22_LinkedCornersAgree ==
    [][/\ \A s \in LinkSlots, t \in LinkSlots :
            Linked(s, t)' => ReadCorner(sharedPoints', linkedBoxes', s[1], s[2]) = ReadCorner(sharedPoints', linkedBoxes', t[1], t[2])
       /\ libCall'.op = "LinkedBox_SetBoxPoint"
            => \A t \in PresentCorners(linkedBoxes) :
                  linkGroup[t] # linkGroup[<<libCall'.in.Box, libCall'.in.Corner>>]
                     => ReadCorner(sharedPoints', linkedBoxes', t[1], t[2]) = ReadCorner(sharedPoints, linkedBoxes, t[1], t[2])]_vars

(***************************************************************************)
(* C23.  The main pass runs its phases in the order 0 (X-rows), 1          *)
(* (Y-rows), 2 (Z-columns): a tick never lowers CurrentPhase, the scans    *)
(* logged so far are ordered by phase and no row or column is scanned      *)
(* twice; once the main pass is complete every X-row (y, z), every Y-row   *)
(* (x, z) and every Z-column (x, y) of the grid has been scanned exactly   *)
(* once, Y*Z + X*Z + X*Y scans in all, whatever budgets the ticks ran     *)
(* with.  Grids with counts >= 1.                                          *)
(***************************************************************************)
AllRows ==
    {<<0, y, z>> : y \in 0..(GridCountY - 1), z \in 0..(GridCountZ - 1)}
    \cup {<<1, x, z>> : x \in 0..(GridCountX - 1), z \in 0..(GridCountZ - 1)}
    \cup {<<2, x, y>> : x \in 0..(GridCountX - 1), y \in 0..(GridCountY - 1)}

C23_PhasesInOrder ==
    [][/\ (lastOp' = "Tick" => CurrentPhase' >= CurrentPhase /\ CurrentPhase' \in 0..3)
       /\ (GridCountX' >= 1 /\ GridCountY' >= 1 /\ GridCountZ' >= 1)
             => /\ \A i \in 1..Len(scanLog'), j \in 1..Len(scanLog') :
                      i < j => scanLog'[i][1] <= scanLog'[j][1] /\ scanLog'[i] # scanLog'[j]
                /\ \A i \in 1..Len(scanLog') : scanLog'[i] \in AllRows'
                /\ (CurrentPhase' >= 3 /\ ~crashed')
                      => /\ {scanLog'[i] : i \in 1..Len(scanLog')} = AllRows'
                         /\ Len(scanLog') = GridCountY' * GridCountZ' + GridCountX' * GridCountZ' + GridCountX' * GridCountY']_vars

C23_Witness ==
    /\ CurrentPhase = 3
    /\ GridCountX = MaxCount /\ GridCountY = 1 /\ GridCountZ = MaxCount
    /\ Len(scanLog) = MaxCount + MaxCount * MaxCount + MaxCount
    /\ scanLog[1] = <<0, 0, 0>>
    /\ scanLog[Len(scanLog)] = <<2, MaxCount - 1, 0>>
    /\ RowsPerTick = 1

(***************************************************************************)
(* C24.  Every row scan terminates.  Each iteration of the loop of         *)
(* ScanRowX that issues a probe raises StartI, whether the probe is clear  *)
(* or obstructed and whatever MaxTraceDistance and the hit distance are;   *)
(* the loop ends exactly when StartI >= Count; a row of Count cells issues *)
(* at most Count probes; and a scan whose loop gets to run ends.           *)
(***************************************************************************)
C24_RowScanTerminates ==
    /\ [][/\ (rowScan.Stage = "Walking" /\ rowScan.StartI < GridCountX)
                => /\ rowScan'.StartI > rowScan.StartI
                   /\ rowScan'.Stage = "Walking"
                   /\ Len(rowScan'.Probes) = Len(rowScan.Probes) + 1
          /\ (rowScan.Stage = "Walking" /\ rowScan.StartI >= GridCountX)
                => rowScan'.Stage = "Done" /\ rowScan'.Probes = rowScan.Probes
          /\ Len(rowScan'.Probes) <= Max2(GridCountX', 0)]_vars
    /\ (rowScan.Stage = "Walking") ~> (rowScan.Stage = "Done")

C24_Witness ==
    /\ rowScan.Stage = "Done"
    /\ GridCountX = MaxRow
    /\ Len(rowScan.Probes) >= 3
    /\ \E n \in 1..Len(rowScan.Probes) : rowScan.Probes[n].bHit /\ rowScan.Probes[n].HitDist > 0
    /\ \E n \in 1..Len(rowScan.Probes) : ~rowScan.Probes[n].bHit
    /\ MaxTraceDistance = 1000

(***************************************************************************)
(* C25.  A probe that meets no obstruction marks exactly the cells of      *)
(* [StartI, TargetI] whose own center is free, leaves every other flag as  *)
(* it was, and sets StartI to TargetI + 1.  A cell whose center is not     *)
(* free is skipped; the cells after it in the span are still marked.       *)
(***************************************************************************)
LastProbe(W) == W.Probes[Len(W.Probes)]

\* The flag of cell Xi of the row being followed.
RowFlag(Boxes, Xi) == Boxes[Index(Xi, rowScan.YIndex, rowScan.ZIndex) + 1].VisibilityMask

C25_ClearProbeMarksSpan ==
    [][(rowScan.Stage = "Walking" /\ Len(rowScan'.Probes) > Len(rowScan.Probes) /\ ~LastProbe(rowScan').bHit)
          => /\ LastProbe(rowScan').StartI = rowScan.StartI
             /\ LastProbe(rowScan').Marked
                   = {i \in rowScan.StartI..LastProbe(rowScan').TargetI : IsCenterFree(RowCenter(PendingBoxes, i, rowScan.YIndex, rowScan.ZIndex))}
             /\ \A i \in 0..(GridCountX - 1) :
                   RowFlag(PendingBoxes', i) = IF i \in LastProbe(rowScan').Marked THEN 1 ELSE RowFlag(PendingBoxes, i)
             /\ rowScan'.StartI = LastProbe(rowScan').TargetI + 1]_vars

C25_Witness ==
    /\ rowScan.Stage = "Done"
    /\ GridCountX = MaxRow
    /\ bUseCenterOverlapTest
    /\ Len(rowScan.Probes) = 1
    /\ ~rowScan.Probes[1].bHit
    /\ rowScan.Probes[1].StartI = 0 /\ rowScan.Probes[1].TargetI = MaxRow - 1
    /\ rowScan.Probes[1].Marked = (0..(MaxRow - 1)) \ {1}
    /\ \A i \in 0..(MaxRow - 1) : RowFlag(PendingBoxes, i) = IF i = 1 THEN 0 ELSE 1

(***************************************************************************)
(* C26.  On an obstructed probe HitIndex is StartI plus the whole number   *)
(* of center-to-center steps in HitDist / StepLen + 0.001, clamped to      *)
(* [StartI, TargetI]; exactly the center-free cells of [StartI, HitIndex]  *)
(* are marked and every other flag is left as it was; the next probe, if   *)
(* any, starts at HitIndex + 1 and its outcome is that of the trace from   *)
(* its own start center to its own target center.  In a row of 4 cells     *)
(* with a wall across the row at its midpoint the first probe marks        *)
(* exactly cells 0 and 1 and a second probe starts at cell 2.              *)
(***************************************************************************)
\* The loop iteration just taken issued an obstructed probe.
ObstructedProbeIssued == rowScan.Stage = "Walking" /\ Len(rowScan'.Probes) > Len(rowScan.Probes) /\ LastProbe(rowScan').bHit

\* The rest of an obstructed probe, given the index HitIndex it should stop at.
ObstructedProbeMarks(HitIndex) ==
    /\ LastProbe(rowScan').LastI = HitIndex
    /\ LastProbe(rowScan').Marked
          = {i \in rowScan.StartI..HitIndex : IsCenterFree(RowCenter(PendingBoxes, i, rowScan.YIndex, rowScan.ZIndex))}
    /\ \A i \in 0..(GridCountX - 1) :
          RowFlag(PendingBoxes', i) = IF i \in LastProbe(rowScan').Marked THEN 1 ELSE RowFlag(PendingBoxes, i)
    /\ rowScan'.StartI = HitIndex + 1

ProbeOnItsOwn(p) ==
    /\ p.TargetI = TargetIndex(p.StartI, GridCountX, p.StepLen)
    /\ p.bHit = LineTrace(RowCenter(PendingBoxes, p.StartI, rowScan.YIndex, rowScan.ZIndex),
                          RowCenter(PendingBoxes, p.TargetI, rowScan.YIndex, rowScan.ZIndex)).bHit

ProbesOnTheirOwn == \A n \in 1..Len(rowScan.Probes) : ProbeOnItsOwn(rowScan.Probes[n])

MidpointWallExample ==
    (/\ GridCountX = 4 /\ rowScan.Stage = "Done"
     /\ scene = {Block(<<3600, 0, 0>>, <<3600, 7200, 7200>>)}
     /\ MaxTraceDistance \in {0, 20000})
        => /\ Len(rowScan.Probes) = 2
           /\ rowScan.Probes[1].bHit /\ rowScan.Probes[1].Marked = {0, 1}
           /\ rowScan.Probes[2].StartI = 2

C26_HitIndexWithTolerance ==
    [][/\ ObstructedProbeIssued
            => LET p == LastProbe(rowScan')
               IN ObstructedProbeMarks(Clamp(rowScan.StartI + (1000 * p.HitDist + p.StepLen) \div (1000 * p.StepLen), rowScan.StartI, p.TargetI))
       /\ ProbesOnTheirOwn'
       /\ MidpointWallExample']_vars

C26_Witness ==
    /\ GridCountX = MaxRow /\ rowScan.Stage = "Done"
    /\ scene = {Block(<<3600, 0, 0>>, <<3600, 7200, 7200>>)}
    /\ MaxTraceDistance = 0
    /\ Len(rowScan.Probes) = 2
    /\ rowScan.Probes[1].bHit /\ rowScan.Probes[1].HitDist = 2700 /\ rowScan.Probes[1].LastI = 1
    /\ rowScan.Probes[1].Marked = {0, 1}
    /\ rowScan.Probes[2].StartI = 2 /\ ~rowScan.Probes[2].bHit

\* C26 as stated: the whole number of steps in HitDist / StepLen, with no tolerance.
C26_HitIndexWholeSteps ==
    [][/\ ObstructedProbeIssued
            => LET p == LastProbe(rowScan')
               IN ObstructedProbeMarks(Clamp(rowScan.StartI + p.HitDist \div p.StepLen, rowScan.StartI, p.TargetI))
       /\ ProbesOnTheirOwn'
       /\ MidpointWallExample']_vars

(***************************************************************************)
(* C27.  No probe is longer than MaxTraceDistance: when MaxTraceDistance   *)
(* is positive every probe has (TargetI - StartI) * StepLen <=             *)
(* MaxTraceDistance, also when MaxTraceDistance is smaller than one step;  *)
(* when it is 0 every probe's target is the last index of the row.         *)
(***************************************************************************)
C27_ProbeWithinMaxDistance ==
    \A n \in 1..Len(rowScan.Probes) :
        LET p == rowScan.Probes[n]
        IN /\ MaxTraceDistance > 0 => (p.TargetI - p.StartI) * p.StepLen <= MaxTraceDistance
           /\ MaxTraceDistance = 0 => p.TargetI = GridCountX - 1

HiddenAtMainEnd == \E n \in 1..Len(mainFlags) : mainFlags[n] = 0

FlagsOf(Boxes) == [n \in 1..Len(Boxes) |-> Boxes[n].VisibilityMask]

C29_SubSamplingAfterMain ==
    [][/\ (bIsSubSampling' \/ HiddenBoxIndices' # <<>>)
             => CurrentPhase' >= 3 /\ mainFlags' # <<>> /\ bEnableSubSampling' /\ HiddenAtMainEnd'
       /\ (lastOp' = "Tick" /\ mainFlags = <<>> /\ mainFlags' # <<>> /\ ~crashed')
             => IF bEnableSubSampling /\ HiddenAtMainEnd'
                THEN HiddenBoxIndices' # <<>>
                ELSE /\ ~bIsRunning' /\ ~bIsSubSampling'
                     /\ completions' = completions + 1
                     /\ HiddenBoxIndices' = <<>> /\ CurrentHiddenIndex' = 0
                     /\ FlagsOf(PendingBoxes') = mainFlags'
                     /\ FlagsOf(AnalysisResults') = mainFlags'
       /\ (mainFlags' # <<>> /\ ~(bEnableSubSampling' /\ HiddenAtMainEnd'))
             => FlagsOf(PendingBoxes') = mainFlags'
       /\ (lastOp' = "Tick" /\ mainFlags # <<>>)
             => scanLog' = scanLog /\ CurrentPhase' = CurrentPhase /\ CurrentPhaseRowIndex' = CurrentPhaseRowIndex]_vars

C29_Witness ==
    /\ ~bEnableSubSampling
    /\ mainFlags # <<>> /\ HiddenAtMainEnd
    /\ \E n \in 1..Len(mainFlags) : mainFlags[n] = 1
    /\ ~bIsRunning /\ completions = 1
    /\ HiddenCount >= 1 /\ VisibleCount >= 1
    /\ HiddenBoxIndices = <<>>

(***************************************************************************)
(* C30.  The worklist built when the main pass completes holds exactly the *)
(* indices of the cells hidden at that moment, each once, in ascending     *)
(* order.  The refiner takes the entries in that order, one per advance of *)
(* CurrentHiddenIndex, and CurrentHiddenIndex never exceeds the worklist's *)
(* length.                                                                 *)
(***************************************************************************)
C30_WorklistOfHidden ==
    /\ (mainFlags # <<>> /\ bEnableSubSampling)
          => /\ \A i \in 1..Len(HiddenBoxIndices), j \in 1..Len(HiddenBoxIndices) : i < j => HiddenBoxIndices[i] < HiddenBoxIndices[j]
             /\ {HiddenBoxIndices[i] : i \in 1..Len(HiddenBoxIndices)} = {n - 1 : n \in {m \in 1..Len(mainFlags) : mainFlags[m] = 0}}
    /\ CurrentHiddenIndex \in 0..Len(HiddenBoxIndices)
    /\ Len(refineLog) = CurrentHiddenIndex
    /\ \A k \in 1..Len(refineLog) : refineLog[k] = HiddenBoxIndices[k]

C30_Witness ==
    /\ bIsSubSampling /\ bIsRunning
    /\ Len(HiddenBoxIndices) >= 3
    /\ Len(HiddenBoxIndices) < Len(PendingBoxes)
    /\ CurrentHiddenIndex = 2
    /\ refineLog = <<HiddenBoxIndices[1], HiddenBoxIndices[2]>>
    /\ HiddenBoxIndices[2] > HiddenBoxIndices[1] + 1

(***************************************************************************)
(* C31.  A tick in which the refinement loop takes cells off the worklist  *)
(* keeps the length of the grid and the corners of every cell; against the *)
(* flags the refinement found (those of the grid, or those the main pass   *)
(* left when it ended in this tick) a flag differs only at a cell taken in *)
(* this tick, and only from hidden to visible; taking one cell changes at  *)
(* most one flag; and the result snapshot is left alone or becomes a copy  *)
(* of the grid, so that nothing of a sub-grid is in either.                *)
(***************************************************************************)
TakenInStep == {refineLog'[k] + 1 : k \in (Len(refineLog) + 1)..Len(refineLog')}

FlagsBeforeRefinement == IF bIsSubSampling THEN FlagsOf(PendingBoxes) ELSE mainFlags'

C31_RefinementFrame ==
    [][(lastOp' = "Tick" /\ Len(refineLog') > Len(refineLog))
          => /\ Len(PendingBoxes') = Len(PendingBoxes)
             /\ \A n \in 1..Len(PendingBoxes) :
                   /\ PendingBoxes'[n].Points = PendingBoxes[n].Points
                   /\ PendingBoxes'[n].VisibilityMask # FlagsBeforeRefinement[n]
                         => n \in TakenInStep /\ FlagsBeforeRefinement[n] = 0 /\ PendingBoxes'[n].VisibilityMask = 1
             /\ (Len(refineLog') = Len(refineLog) + 1
                    => Cardinality({n \in 1..Len(PendingBoxes) : PendingBoxes'[n].VisibilityMask # FlagsBeforeRefinement[n]}) <= 1)
             /\ AnalysisResults' \in {AnalysisResults, PendingBoxes'}]_vars

\* The refinement has promoted the first cell of the worklist, whose sub-grid
\* has more than one sub-cell; the cell still has its eight corners and
\* another cell of the grid is still hidden.
C31_Witness ==
    /\ lastOp = "Tick"
    /\ SubSampleCountX * SubSampleCountY * SubSampleCountZ > 1
    /\ refineLog # <<>>
    /\ mainFlags[refineLog[1] + 1] = 0
    /\ PendingBoxes[refineLog[1] + 1].VisibilityMask = 1
    /\ DOMAIN PendingBoxes[refineLog[1] + 1].Points = EE_Box_8Point
    /\ \E n \in 1..Len(PendingBoxes) : PendingBoxes[n].VisibilityMask = 0

(***************************************************************************)
(* C32.  Under a static scene a row scan only adds visibility and is       *)
(* idempotent: a scan of any row or column of a grid that is hidden,       *)
(* partly visible or fully visible keeps the grid's cells and leaves every *)
(* visible cell visible, and a scan of the row or column that was scanned  *)
(* in the step before leaves every flag as that scan left it.              *)
(***************************************************************************)
C32_RescanAddsNothingTwice ==
    [][lastOp' = "ScanRow"
          => /\ Len(PendingBoxes') = Len(PendingBoxes)
             /\ \A n \in 1..Len(PendingBoxes) :
                   /\ PendingBoxes'[n].Points = PendingBoxes[n].Points
                   /\ PendingBoxes[n].VisibilityMask # 0 => PendingBoxes'[n].VisibilityMask # 0
             /\ libCall'.in.bAgain => PendingBoxes' = PendingBoxes /\ libCall'.out = libCall.out]_vars

\* A row scanned twice in succession before the main pass has scanned any:
\* the scan made a cell visible and left another one hidden.
C32_Witness ==
    /\ lastOp = "ScanRow"
    /\ libCall.op = "ScanRow"
    /\ \E n \in 1..Len(PendingBoxes) : PendingBoxes[n].VisibilityMask = 0
    /\ \E n \in 1..Len(PendingBoxes) : PendingBoxes[n].VisibilityMask = 1
    /\ libCall.in.bAgain
    /\ \E n \in 1..Len(PendingBoxes) : PendingBoxes[n].VisibilityMask = 1 /\ scanLog = <<>>

(***************************************************************************)
(* C33.  The spans marked by the successive probes of a row scan are       *)
(* contiguous and cover the indices 0..Count-1 once each: the first span   *)
(* starts at 0, every span is non-empty, each next span starts right after *)
(* the one before, and the scan ends with the last span ending at Count-1. *)
(* This holds for ScanRowX followed probe by probe and for the probes of   *)
(* ScanSubRow over a row of 2..MaxRow sub-cells laid in any cell of the    *)
(* grid.  So once its row is scanned a cell of a fresh grid is visible iff *)
(* its center is free, and with the center test off every cell is visible  *)
(* once phase 0 has scanned its row, in every scene.                       *)
(***************************************************************************)
\* Spans is a sequence of <<first, last>>: the spans up to now are contiguous from 0.
Contiguous(Spans) ==
    /\ Spans # <<>> => Spans[1][1] = 0
    /\ \A n \in 1..Len(Spans) : Spans[n][1] <= Spans[n][2]
    /\ \A n \in 1..(Len(Spans) - 1) : Spans[n + 1][1] = Spans[n][2] + 1

CoversOnce(Spans, Count) == Contiguous(Spans) /\ Spans # <<>> /\ Spans[Len(Spans)][2] = Count - 1

RowSpans == [n \in 1..Len(rowScan.Probes) |-> <<rowScan.Probes[n].StartI, rowScan.Probes[n].LastI>>]

\* The spans of ScanSubRow(Count, ...) along X over the Count x 1 x 1 sub-grid of Box.
SubRowSpans(Box, Count) ==
    Let(GenerateVoxelGridBoxes_ByCounts(LinkedBox_GetAABB(Box), Count, 1, 1), LAMBDA SubVoxels :
        LET CenterAt(i) == LinkedBox_GetCenter(SubVoxels[i + 1])
        IN Let(SegmentWalk(Count, CenterAt), LAMBDA Probes : [n \in 1..Len(Probes) |-> <<Probes[n].StartI, Probes[n].MarkTo>>]))

RowScanned == rowScan.Stage = "Done" \/ (PendingBoxes # <<>> /\ (CurrentPhase >= 1 \/ CurrentPhaseRowIndex >= 1))

C34_SlicingKeepsOutcome ==
    completions = 1
        => /\ ~crashed /\ ~bIsRunning
           /\ RunInOneStep.completions = 1
           /\ ~RunInOneStep.bIsRunning
           /\ PendingBoxes = RunInOneStep.PendingBoxes
           /\ GetAnalysisResults = RunInOneStep.AnalysisResults
           /\ GetVisiblePointCount = RunInOneStep.VisibleCount
           /\ GetHiddenPointCount = RunInOneStep.HiddenCount
           /\ eventPayload = RunInOneStep.eventPayload

\* A run completed by a tick of budget 1 after its worklist of two hidden
\* cells was refined in two ticks; one cell was promoted, one is still hidden.
C34_Witness ==
    /\ completions = 1
    /\ RowsPerTick = 1
    /\ Len(refineLog) = 2
    /\ GetVisiblePointCount > 0
    /\ GetHiddenPointCount > 0
    /\ \E n \in 1..Len(PendingBoxes) : mainFlags[n] = 0 /\ PendingBoxes[n].VisibilityMask = 1

(***************************************************************************)
(* C35.  No step indexes PendingBoxes or a sub-grid outside 0..length-1,   *)
(* in any reachable state, for every triple of sample counts that          *)
(* StartAnalysis accepts, zero and negative counts included.               *)
(***************************************************************************)
C35_IndicesInRange == ~crashed

(***************************************************************************)
(* C36.  In every reachable state the sub-sampling flag implies the        *)
(* running flag: a controller that is not running (idle, completed,        *)
(* stopped, cleared, after a failed StartAnalysis or after the             *)
(* missing-world abort) has bIsSubSampling false.                          *)
(***************************************************************************)
C36_SubSamplingImpliesRunning == bIsSubSampling => bIsRunning

(***************************************************************************)
(* C37.  With counts >= 1, a budget b >= 1 that stays the same, the world  *)
(* present and no sub-sampling work (sub-sampling disabled, or no cell     *)
(* hidden after the main pass), the completion event fires in the          *)
(* (floor(R / b) + 1)-th tick after StartAnalysis, R = Y*Z + X*Z + X*Y:    *)
(* no earlier tick fires it and that tick does.  When b divides R, the     *)
(* tick R / b scans the last column and leaves the run running.            *)
(***************************************************************************)
NoSubSamplingWork == ~bEnableSubSampling \/ (HiddenBoxIndices = <<>> /\ (mainFlags # <<>> => ~HiddenAtMainEnd))

C37_CompletionTick ==
    (PendingBoxes # <<>> /\ NoSubSamplingWork)
        => /\ completions = 0 => tickCount <= MainPassRows \div RowsPerTick
           /\ completions = 0 => bIsRunning
           /\ completions = 1 => tickCount = MainPassRows \div RowsPerTick + 1
           /\ (MainPassRows % RowsPerTick = 0 /\ tickCount = MainPassRows \div RowsPerTick)
                 => Len(scanLog) = MainPassRows /\ completions = 0 /\ bIsRunning

\* A run on a grid of several cells, stepped with a budget above 1 that
\* divides the number of its rows, completed one tick after its last column
\* was scanned, with cells left hidden.
C37_Witness ==
    /\ completions = 1
    /\ NoSubSamplingWork
    /\ RowsPerTick > 1
    /\ MainPassRows > RowsPerTick
    /\ MainPassRows % RowsPerTick = 0
    /\ tickCount = MainPassRows \div RowsPerTick + 1
    /\ GetHiddenPointCount > 0

(***************************************************************************)
(* C38.  While the controller is running, in the main pass or in           *)
(* sub-sampling, GetAnalysisResults() is empty, the visible and the hidden *)
(* count are 0 and GetVisibilityPercentage() is 0; and the results or a    *)
(* count become non-empty or non-zero only in a step that fires the        *)
(* completion event and ends the run.                                      *)
(***************************************************************************)
C38_NoResultsWhileRunning ==
    /\ [](bIsRunning
            => /\ GetAnalysisResults = <<>>
               /\ GetVisiblePointCount = 0
               /\ GetHiddenPointCount = 0
               /\ IsZero(GetVisibilityPercentage))
    /\ [][((GetAnalysisResults = <<>> /\ GetAnalysisResults' # <<>>)
             \/ (GetVisiblePointCount = 0 /\ GetVisiblePointCount' # 0)
             \/ (GetHiddenPointCount = 0 /\ GetHiddenPointCount' # 0))
            => lastOp' = "Tick" /\ bIsRunning /\ ~bIsRunning' /\ completions' = completions + 1]_vars

\* A controller in the middle of its worklist of hidden cells, with visible
\* cells in the grid and nothing yet in the results.
C38_Witness ==
    /\ bIsRunning
    /\ bIsSubSampling
    /\ lastOp = "Tick"
    /\ CurrentHiddenIndex >= 1
    /\ CurrentHiddenIndex < Len(HiddenBoxIndices)
    /\ CountVisible(PendingBoxes) > 0
    /\ GetAnalysisResults = <<>>

(***************************************************************************)
(* C39.  With sub-sample counts (1, 1, 1) in a static scene and under an   *)
(* unchanged configuration, sub-sampling promotes no cell: the one         *)
(* sub-cell has the center of its parent, every flag keeps the value it    *)
(* had when the main pass ended, through the refinement and at completion, *)
(* and the results and counts of the completed run are those of the main   *)
(* pass.                                                                   *)
(***************************************************************************)
C39_UnitSubGridPromotesNothing ==
    (SubSampleCountX = 1 /\ SubSampleCountY = 1 /\ SubSampleCountZ = 1 /\ mainFlags # <<>>)
        => /\ FlagsOf(PendingBoxes) = mainFlags
           /\ \A n \in RefinedCells :
                 SubCellCenters(PendingBoxes[n]) = {LinkedBox_GetCenter(PendingBoxes[n])}
           /\ completions = 1
                 => /\ FlagsOf(GetAnalysisResults) = mainFlags
                    /\ GetVisiblePointCount = Cardinality({n \in 1..Len(mainFlags) : mainFlags[n] # 0})
                    /\ GetHiddenPointCount = Cardinality({n \in 1..Len(mainFlags) : mainFlags[n] = 0})

\* A run completed through sub-sampling with unit sub-grids: both hidden
\* cells of its worklist were refined, visible cells exist beside them.
C39_Witness ==
    /\ SubSampleCountX = 1 /\ SubSampleCountY = 1 /\ SubSampleCountZ = 1
    /\ completions = 1
    /\ Len(refineLog) >= 1
    /\ Len(refineLog) = Len(HiddenBoxIndices)
    /\ GetVisiblePointCount > 0
    /\ GetHiddenPointCount > 0

(***************************************************************************)
(* C40.  While bIsSubSampling is set, every entry of HiddenBoxIndices at a *)
(* position >= CurrentHiddenIndex is the index of a cell of PendingBoxes   *)
(* whose flag is 0, and the refinement loop continued from that state      *)
(* with a budget of one entry and with a budget for the whole worklist     *)
(* never takes the "already visible, skip" branch.  The same holds for the *)
(* loop the step enters in the tick that ends the main pass, which starts  *)
(* from the grid as the main pass left it with the worklist just filled;   *)
(* and every entry the refiner takes in a step had flag 0 before the       *)
(* refinement of that step.                                                *)
(***************************************************************************)
WorklistAhead == {HiddenBoxIndices[k] : k \in (CurrentHiddenIndex + 1)..Len(HiddenBoxIndices)}

\* The controller as a step call finds it when it resumes the worklist.
Resumed == [Cur EXCEPT !.bIsRunning = TRUE]

\* The controller at the hand-over inside the step that ends the main pass:
\* the grid with the flags of the main pass, the worklist at its start.
AtHandOver ==
    [Cur' EXCEPT !.PendingBoxes = [n \in 1..Len(PendingBoxes') |-> [PendingBoxes'[n] EXCEPT !.VisibilityMask = mainFlags'[n]]],
                 !.CurrentHiddenIndex = 0, !.bIsSubSampling = TRUE, !.bIsRunning = TRUE]

C40_SkipBranchNeverTaken ==
    /\ [](bIsSubSampling
            => /\ CurrentHiddenIndex \in 0..Len(HiddenBoxIndices)
               /\ \A i \in WorklistAhead : i \in 0..(Len(PendingBoxes) - 1) /\ PendingBoxes[i + 1].VisibilityMask = 0
               /\ \A k, l \in 1..Len(HiddenBoxIndices) : k # l => HiddenBoxIndices[k] # HiddenBoxIndices[l]
               /\ \A b \in {1, Len(HiddenBoxIndices)} : SkippedEntries(Resumed, 0, b) = {})
    /\ [][(lastOp' = "Tick" /\ ~bIsSubSampling /\ Len(refineLog') > Len(refineLog))
            => \A b \in {1, Len(HiddenBoxIndices')} : SkippedEntries(AtHandOver, 0, b) = {}]_vars
    /\ [][(lastOp' = "Tick" /\ Len(refineLog') > Len(refineLog))
            => \A n \in TakenInStep : FlagsBeforeRefinement[n] = 0]_vars

\* In the middle of a worklist: an entry was reached and promoted, another is
\* still ahead and hidden, and the main pass had found a cell visible.
C40_Witness ==
    /\ bIsSubSampling /\ bIsRunning
    /\ CurrentHiddenIndex >= 1
    /\ CurrentHiddenIndex < Len(HiddenBoxIndices)
    /\ Len(refineLog) = CurrentHiddenIndex
    /\ \E k \in 1..CurrentHiddenIndex : PendingBoxes[HiddenBoxIndices[k] + 1].VisibilityMask = 1
    /\ \E n \in 1..Len(mainFlags) : mainFlags[n] = 1

====
